---- MODULE Spec2Model ----
(***************************************************************************)
(* Model of the timeflow value types Date, Time and DateTime               *)
(* (src/src/date_module, src/src/time_module, src/src/datetime_module and  *)
(* the earlier revision src/src/datetime.rs) and of their unit arithmetic. *)
(*                                                                         *)
(* Numbers: TLC's integers are 32 bits wide.  A u32 is therefore written   *)
(* as two 16-bit limbs <<hi, lo>>, and an i64 count of seconds as          *)
(* [hi, lo] with value hi * 86400 + lo and 0 <= lo < 86400.                *)
(*                                                                         *)
(* Intermediate results are handed on as operator arguments rather than    *)
(* named in LET, so that every operator body is expanded once.             *)
(***************************************************************************)
EXTENDS Integers, Sequences, FiniteSets, TLC

VARIABLES self, last, steps, registry, builder, threads

vars == <<self, last, steps, registry, builder, threads>>

-----------------------------------------------------------------------------
(* Machine integers *)

I32Max == 2147483647

I32Min == -I32Max - 1

Limb == 65536

SecsPerDay == 24 * 60 * 60

Abs(n) == IF n < 0 THEN -n ELSE n

\* Rust's integer division truncates toward zero
TruncDiv(a, b) == IF a >= 0 THEN a \div b ELSE -((-a) \div b)

\* a non-negative i32 as a u32
U32OfNat(n) == <<n \div Limb, n % Limb>>

\* `value as u32` (two's complement reinterpretation): value + 2^32 when
\* value is negative
AsU32(value) ==
    IF value >= 0 THEN U32OfNat(value)
    ELSE <<((value + I32Max + 1) \div Limb) + 32768, (value + I32Max + 1) % Limb>>

\* i32::unsigned_abs: the magnitude as a u32, 2^31 for i32::MIN
UnsignedAbs(value) ==
    IF value = I32Min THEN <<32768, 0>>
    ELSE U32OfNat(Abs(value))

\* `months.0 <= i32::MAX as u32`
U32FitsI32(u) == u[1] < 32768

U32ToInt(u) == u[1] * Limb + u[2]

\* An i64 as [hi, lo]: hi * 86400 + lo with 0 <= lo < 86400
I64(hi, lo) == [hi |-> hi + lo \div SecsPerDay, lo |-> lo % SecsPerDay]

I64OfInt(n) == I64(0, n)

I64Sub(a, b) == I64(a.hi - b.hi, a.lo - b.lo)

I64Neg(a) == I64(-a.hi, -a.lo)

I64IsNeg(a) == a.hi < 0

I64Leq(a, b) == a.hi < b.hi \/ (a.hi = b.hi /\ a.lo <= b.lo)

\* i64::abs (no operand here is i64::MIN)
I64Abs(a) == IF I64IsNeg(a) THEN I64Neg(a) ELSE a

\* a / k for a >= 0 and a small positive k
I64DivNat(a, k) == I64(a.hi \div k, ((a.hi % k) * SecsPerDay + a.lo) \div k)

\* a / k as Rust divides: truncating toward zero
I64TruncDiv(a, k) ==
    IF I64IsNeg(a) THEN I64Neg(I64DivNat(I64Neg(a), k)) ELSE I64DivNat(a, k)

\* `x as i32`: x reduced modulo 2^32 into -2^31 .. 2^31 - 1.  With
\* 2^31 = 24855 * 86400 + 11648 and 2^32 = 49710 * 86400 + 23296.
I64AsI32(x) ==
    LET Two31 == I64(24855, 11648)
        \* k * 2^32 for a small k
        MulTwo32(k) == I64(k * 49710, k * 23296)
        \* an i64 within the i32 range as a plain integer
        ToInt(r) ==
            IF r.hi < 0 THEN (r.hi + 1) * SecsPerDay + (r.lo - SecsPerDay)
            ELSE r.hi * SecsPerDay + r.lo
        \* floor(y / 2^32), known to be k0 - 1, k0 or k0 + 1
        FloorTwo32(y, k0) ==
            IF I64Leq(MulTwo32(k0 + 1), y) THEN k0 + 1
            ELSE IF I64Leq(MulTwo32(k0), y) THEN k0
            ELSE k0 - 1
        \* y - k * 2^32 - 2^31
        WrapAround(y, k) == ToInt(I64Sub(I64Sub(y, MulTwo32(k)), Two31))
        \* y = x + 2^31 reduced modulo 2^32, less 2^31
        WrapShifted(y) == WrapAround(y, FloorTwo32(y, y.hi \div 49710))
    IN  WrapShifted(I64(x.hi + 24855, x.lo + 11648))

-----------------------------------------------------------------------------
(* chrono::NaiveDate, as [year, month, day] *)

MinYear == -262143

MaxYear == 262142

DaysInMonth(year, month) ==
    LET IsLeapYear == year % 4 = 0 /\ (year % 100 # 0 \/ year % 400 = 0)
    IN  IF month = 2 THEN (IF IsLeapYear THEN 29 ELSE 28)
        ELSE IF month \in {4, 6, 9, 11} THEN 30
        ELSE 31

NaiveDate(year, month, day) == [year |-> year, month |-> month, day |-> day]

None == [some |-> FALSE]

Some(v) == [some |-> TRUE, v |-> v]

\* NaiveDate::from_ymd_opt
from_ymd_opt(year, month, day) ==
    IF /\ year >= MinYear /\ year <= MaxYear
       /\ month >= 1 /\ month <= 12
       /\ day >= 1 /\ day <= DaysInMonth(year, month)
    THEN Some(NaiveDate(year, month, day))
    ELSE None

\* A day count that leaves out the century correction of the Gregorian
\* calendar (every fourth year is taken as a leap year)
DaysFromMarchYearJulian(y, doy) ==
    (y \div 400) * 146097 + ((y % 400) * 365 + (y % 400) \div 4 + doy) - 719468

\* days from 1970-01-01 to day `doy` of the year y that starts on March 1
DaysFromMarchYear(y, doy) ==
    (y \div 400) * 146097
        + ((y % 400) * 365 + (y % 400) \div 4 - (y % 400) \div 100 + doy)
        - 719468

\* days from 1970-01-01 to the date (negative before it)
DaysFromCivil(date) ==
    DaysFromMarchYear(IF date.month <= 2 THEN date.year - 1 ELSE date.year,
                      (153 * ((date.month + 9) % 12) + 2) \div 5 + date.day - 1)

\* the date that many days from 1970-01-01
CivilFromDays(z) ==
    LET \* month index mp (0 = March) and day of a March-based year, as a date
        FromMonth(y, doy, mp) ==
            NaiveDate(IF mp < 10 THEN y ELSE y + 1,
                      IF mp < 10 THEN mp + 3 ELSE mp - 9,
                      doy - (153 * mp + 2) \div 5 + 1)
        FromDayOfYear(y, doy) == FromMonth(y, doy, (5 * doy + 2) \div 153)
        FromYearOfEra(era, doe, yoe) ==
            FromDayOfYear(yoe + era * 400,
                          doe - (365 * yoe + yoe \div 4 - yoe \div 100))
        FromEra(era, doe) ==
            FromYearOfEra(era, doe,
                (doe - doe \div 1460 + doe \div 36524 - doe \div 146096)
                    \div 365)
    IN  FromEra((z + 719468) \div 146097, (z + 719468) % 146097)

MinDate == NaiveDate(MinYear, 1, 1)

MaxDate == NaiveDate(MaxYear, 12, 31)

\* NaiveDate::add_days(days: i32): None outside MinDate..MaxDate
add_days(date, days) ==
    LET \* the date `days` after day number n
        DateAfter(n) ==
            IF /\ days >= DaysFromCivil(MinDate) - n
               /\ days <= DaysFromCivil(MaxDate) - n
            THEN Some(CivilFromDays(n + days))
            ELSE None
    IN  DateAfter(DaysFromCivil(date))

\* NaiveDate::checked_add_days(Days::new(n)), n a u32-sized count
checked_add_days(date, u) ==
    IF U32FitsI32(u) THEN add_days(date, U32ToInt(u)) ELSE None

\* NaiveDate::checked_sub_days(Days::new(n))
checked_sub_days(date, u) ==
    IF U32FitsI32(u) THEN add_days(date, -U32ToInt(u)) ELSE None

\* A month shift that keeps the day as it is: None when the month lacks it
KeepDay(year, month, day) == from_ymd_opt(year, month, day)

\* the date of that year and month whose day is the i-th, or the last day
\* of the month when the month is shorter
ClampDay(year, month, day) ==
    from_ymd_opt(year, month,
                 IF day > DaysInMonth(year, month)
                 THEN DaysInMonth(year, month) ELSE day)

\* NaiveDate::diff_months(months: i32)
diff_months(date, months) ==
    LET \* year * 12 + month0 shifted by `months`: None when the i32 sum
        \* overflows
        MonthsAfter(cur) ==
            IF \/ (months > 0 /\ cur > 0 /\ months > I32Max - cur)
               \/ (months < 0 /\ cur < 0 /\ months < I32Min - cur)
            THEN None
            ELSE ClampDay((cur + months) \div 12, ((cur + months) % 12) + 1,
                          date.day)
    IN  MonthsAfter(date.year * 12 + date.month - 1)

\* NaiveDate::checked_add_months(Months::new(n))
checked_add_months(date, u) ==
    IF u = <<0, 0>> THEN Some(date)
    ELSE IF U32FitsI32(u) THEN diff_months(date, U32ToInt(u))
    ELSE None

\* NaiveDate::checked_sub_months(Months::new(n))
checked_sub_months(date, u) ==
    IF u = <<0, 0>> THEN Some(date)
    ELSE IF U32FitsI32(u) THEN diff_months(date, -U32ToInt(u))
    ELSE None

-----------------------------------------------------------------------------
(* chrono::NaiveTime, as its second of the day, and chrono::TimeDelta *)

from_hms_opt(hour, minute, second) ==
    IF hour < 24 /\ minute < 60 /\ second < 60
    THEN Some(hour * 3600 + minute * 60 + second)
    ELSE None

hour(time) == time \div 3600

minute(time) == (time \div 60) % 60

second(time) == time % 60

\* chrono::TimeDelta in whole seconds: an i64
TimeDelta(days, secs) == I64(days, secs)

\* TimeDelta::new(value as i64 * 60 * 60, 0) and Duration::try_hours(value
\* as i64), and so for minutes and seconds: None beyond i64::MAX / 1000
\* seconds, which no i32 * 3600 reaches
UnitDelta(unit, value) ==
    IF unit = "Hour"
    THEN Some(TimeDelta(value \div 24, (value % 24) * 3600))
    ELSE IF unit = "Minute"
    THEN Some(TimeDelta(value \div 1440, (value % 1440) * 60))
    ELSE Some(TimeDelta(value \div SecsPerDay, value % SecsPerDay))

\* A time addition that stops at 23:59:59 instead of wrapping around
saturating_add_signed(time, delta) ==
    [time |-> IF time + delta.lo >= SecsPerDay THEN SecsPerDay - 1
              ELSE time + delta.lo,
     days |-> delta.hi]

\* NaiveTime::overflowing_add_signed: the wrapped time and the whole days
\* carried out of it
overflowing_add_signed(time, delta) ==
    [time |-> (time + delta.lo) % SecsPerDay,
     days |-> delta.hi + (time + delta.lo) \div SecsPerDay]

\* NaiveTime::signed_duration_since, in whole seconds
NaiveTime_signed_duration_since(time, rhs) == I64OfInt(time - rhs)

-----------------------------------------------------------------------------
(* chrono::NaiveDateTime, as [date, time] *)

NaiveDateTime(date, time) == [date |-> date, time |-> time]

\* Option<NaiveDate>::map(|date| NaiveDateTime { date, time })
and_time(date, time) ==
    IF date.some THEN Some(NaiveDateTime(date.v, time)) ELSE None

\* A datetime addition that wraps the time and leaves the date alone
drop_days(date, t) == and_time(Some(date), t.time)

\* the date moved by the days carried out of the time of day
carry_days(date, t) == and_time(add_days(date, t.days), t.time)

\* NaiveDateTime + TimeDelta:
\* checked_add_signed(rhs).expect("`NaiveDateTime + TimeDelta` overflowed")
NaiveDateTime_add(dt, delta) ==
    LET \* Option::expect: the value, or a panic
        expect(opt) ==
            IF opt.some THEN [panic |-> FALSE, v |-> opt.v]
            ELSE [panic |-> TRUE]
        \* NaiveDateTime::checked_add_signed
        checked_add_signed ==
            carry_days(dt.date, overflowing_add_signed(dt.time, delta))
    IN  expect(checked_add_signed)

\* NaiveDateTime::and_utc().timestamp(), an i64
timestamp(dt) == TimeDelta(DaysFromCivil(dt.date), dt.time)

-----------------------------------------------------------------------------
(* Inputs.Patterns and rendering.  A pattern is the sequence of its strftime items. *)

Pad2(n) == IF n < 10 THEN "0" \o ToString(n) ELSE ToString(n)

TimeItems == {"%H", "%M", "%S"}

FormatDateItem(item, date) ==
    LET Pad4(n) ==
            IF n < 10 THEN "000" \o ToString(n)
            ELSE IF n < 100 THEN "00" \o ToString(n)
            ELSE IF n < 1000 THEN "0" \o ToString(n)
            ELSE ToString(n)
        \* %Y: four digits, signed outside 0..9999
        FormatYear(year) ==
            IF year < 0 THEN "-" \o Pad4(-year)
            ELSE IF year > 9999 THEN "+" \o ToString(year)
            ELSE Pad4(year)
    IN  IF item = "%Y" THEN FormatYear(date.year)
        ELSE IF item = "%m" THEN Pad2(date.month)
        ELSE IF item = "%d" THEN Pad2(date.day)
        ELSE item

FormatTimeItem(item, time) ==
    IF item = "%H" THEN Pad2(hour(time))
    ELSE IF item = "%M" THEN Pad2(minute(time))
    ELSE IF item = "%S" THEN Pad2(second(time))
    ELSE item

RECURSIVE NaiveDate_format(_, _)
NaiveDate_format(date, format) ==
    IF format = <<>> THEN ""
    ELSE FormatDateItem(Head(format), date) \o NaiveDate_format(date, Tail(format))

RECURSIVE NaiveTime_format(_, _)
NaiveTime_format(time, format) ==
    IF format = <<>> THEN ""
    ELSE FormatTimeItem(Head(format), time) \o NaiveTime_format(time, Tail(format))

RECURSIVE NaiveDateTime_format(_, _)
NaiveDateTime_format(dt, format) ==
    IF format = <<>> THEN ""
    ELSE (IF Head(format) \in TimeItems
          THEN FormatTimeItem(Head(format), dt.time)
          ELSE FormatDateItem(Head(format), dt.date))
         \o NaiveDateTime_format(dt, Tail(format))

-----------------------------------------------------------------------------
(* The value types and SpanError *)

Date(date, format) == [kind |-> "Date", date |-> date, format |-> format]

Time(time, format) == [kind |-> "Time", time |-> time, format |-> format]

DateTime(datetime, format) ==
    [kind |-> "DateTime", datetime |-> datetime, format |-> format]

\* impl Display: the inner value rendered with the value's own pattern
Display(v) ==
    IF v.kind = "Date" THEN NaiveDate_format(v.date, v.format)
    ELSE IF v.kind = "Time" THEN NaiveTime_format(v.time, v.format)
    ELSE NaiveDateTime_format(v.datetime, v.format)

\* chrono's DelayedFormat returns fmt::Error for an item the inner value
\* has no field for: a time item of a NaiveDate, a date item of a NaiveTime
DisplayFails(v) ==
    \/ v.kind = "Date" /\ \E i \in DOMAIN v.format : v.format[i] \in TimeItems
    \/ v.kind = "Time" /\ \E i \in DOMAIN v.format : v.format[i] \in {"%Y", "%m", "%d"}

Ok(v) == [outcome |-> "Ok", v |-> v]

Err(e) == [outcome |-> "Err", e |-> e]

\* the thread unwinds: no value is returned
Panic == [outcome |-> "Panic"]

\* ErrorContext::err_ctx: the cause boxed under the kind's tag
err_ctx(e, context) == [variant |-> context, inner |-> e]

\* Err(SpanError::InvalidUpdate(format!(..))).err_ctx(context); format!
\* panics when the Display impl of an argument returns an error
InvalidUpdateError(v, unit, value, context) ==
    LET \* format!("Cannot Add/Remove {} {:?} to/from {}", value, unit, self)
        UpdateMessage ==
            "Cannot Add/Remove " \o ToString(value) \o " " \o unit
                \o " to/from " \o Display(v)
    IN  IF DisplayFails(v) THEN Panic
        ELSE Err(err_ctx([variant |-> "InvalidUpdate", text |-> UpdateMessage],
                         context))

\* `value as u32 * 12` / `value.unsigned_abs() * 12`: the product panics
\* when overflow checks are compiled in and wraps otherwise
U32Mul12(u, overflow_checks) ==
    LET \* whether the product exceeds u32::MAX
        Overflows == u[1] * 12 + (u[2] * 12) \div Limb >= Limb
        \* the product reduced modulo 2^32
        Wrapped ==
            <<(u[1] * 12 + (u[2] * 12) \div Limb) % Limb, (u[2] * 12) % Limb>>
    IN  IF Overflows /\ overflow_checks THEN [panic |-> TRUE]
        ELSE [panic |-> FALSE, v |-> Wrapped]

\* the value of a match arm that cannot panic
Computed(opt) == [panic |-> FALSE, v |-> opt]

-----------------------------------------------------------------------------
(* Date (src/src/date_module/mod.rs) *)

\* Date::update, the match on the unit (the same match in src/src/date.rs)
Date_update_match(v, unit, value, overflow_checks) ==
    LET \* self.date.checked_add_months(Months::new(value as u32 * 12))
        add_years(months) ==
            IF months.panic THEN months
            ELSE Computed(checked_add_months(v.date, months.v))
        \* self.date.checked_sub_months(Months::new(value.unsigned_abs() * 12))
        sub_years(months) ==
            IF months.panic THEN months
            ELSE Computed(checked_sub_months(v.date, months.v))
    IN  IF unit = "Year" /\ value > 0 THEN
            add_years(U32Mul12(AsU32(value), overflow_checks))
        ELSE IF unit = "Year" THEN
            sub_years(U32Mul12(UnsignedAbs(value), overflow_checks))
        ELSE IF unit = "Month" /\ value > 0 THEN
            Computed(checked_add_months(v.date, AsU32(value)))
        ELSE IF unit = "Month" THEN
            Computed(checked_sub_months(v.date, UnsignedAbs(value)))
        ELSE IF value > 0 THEN
            Computed(checked_add_days(v.date, AsU32(value)))
        ELSE
            Computed(checked_sub_days(v.date, UnsignedAbs(value)))

\* Date::update
Date_update(v, unit, value, overflow_checks) ==
    LET \* the match on the computed date
        Result(date) ==
            IF date.panic THEN Panic
            ELSE IF date.v.some THEN Ok(Date(date.v.v, v.format))
            ELSE InvalidUpdateError(v, unit, value, "Date")
    IN  Result(Date_update_match(v, unit, value, overflow_checks))

-----------------------------------------------------------------------------
(* Time (src/src/time_module/mod.rs) *)

\* Time::update
Time_update(v, unit, value) ==
    LET \* the match on the unit
        delta_time == UnitDelta(unit, value)
        \* the match on the delta; `self.time + delta_time` wraps around and
        \* drops the carry
        Result(delta) ==
            IF delta.some
            THEN Ok(Time(overflowing_add_signed(v.time, delta.v).time,
                         v.format))
            ELSE InvalidUpdateError(v, unit, value, "Time")
    IN  Result(delta_time)

\* Time::unit_elapsed
Time_unit_elapsed(v, rhs, unit) ==
    LET \* the match on the unit
        Match(d) ==
            IF unit = "Hour" THEN I64TruncDiv(d, 3600)          \* num_hours
            ELSE IF unit = "Minute" THEN I64TruncDiv(d, 60)     \* num_minutes
            ELSE d                                              \* num_seconds
    IN  Ok(Match(NaiveTime_signed_duration_since(v.time, rhs.time)))

-----------------------------------------------------------------------------
(* DateTime (src/src/datetime_module/mod.rs) *)

\* DateTime::update, the match on the unit (the same match in
\* src/src/datetime.rs)
DateTime_update_match(v, unit, value, overflow_checks) ==
    LET \* self.datetime.checked_add_months(Months::new(value as u32 * 12))
        add_years(months) ==
            IF months.panic THEN months
            ELSE Computed(and_time(checked_add_months(v.datetime.date, months.v),
                                   v.datetime.time))
        \* self.datetime
        \*     .checked_sub_months(Months::new(value.unsigned_abs() * 12))
        sub_years(months) ==
            IF months.panic THEN months
            ELSE Computed(and_time(checked_sub_months(v.datetime.date, months.v),
                                   v.datetime.time))
        \* the closure's value as the Some(..) that Option::map returns
        SomeSum(sum) == IF sum.panic THEN sum ELSE Computed(Some(sum.v))
        \* Duration::try_hours(value as i64).map(|hours| self.datetime + hours)
        MapAdd(delta) ==
            IF delta.some THEN SomeSum(NaiveDateTime_add(v.datetime, delta.v))
            ELSE Computed(None)
    IN  IF unit = "Year" /\ value > 0 THEN
            add_years(U32Mul12(AsU32(value), overflow_checks))
        ELSE IF unit = "Year" THEN
            sub_years(U32Mul12(UnsignedAbs(value), overflow_checks))
        ELSE IF unit = "Month" /\ value > 0 THEN
            Computed(and_time(checked_add_months(v.datetime.date, AsU32(value)),
                              v.datetime.time))
        ELSE IF unit = "Month" THEN
            Computed(and_time(checked_sub_months(v.datetime.date,
                                                 UnsignedAbs(value)),
                              v.datetime.time))
        ELSE IF unit = "Day" /\ value > 0 THEN
            Computed(and_time(checked_add_days(v.datetime.date, AsU32(value)),
                              v.datetime.time))
        ELSE IF unit = "Day" THEN
            Computed(and_time(checked_sub_days(v.datetime.date,
                                               UnsignedAbs(value)),
                              v.datetime.time))
        ELSE MapAdd(UnitDelta(unit, value))

\* DateTime::update
DateTime_update(v, unit, value, overflow_checks) ==
    LET \* the match on the computed datetime
        Result(datetime) ==
            IF datetime.panic THEN Panic
            ELSE IF datetime.v.some THEN Ok(DateTime(datetime.v.v, v.format))
            ELSE InvalidUpdateError(v, unit, value, "DateTime")
    IN  Result(DateTime_update_match(v, unit, value, overflow_checks))

\* DateTime::unit_elapsed
DateTime_unit_elapsed(v, rhs, unit) ==
    LET \* the match on the unit; secs is self.datetime.and_utc().timestamp()
        \* - rhs.datetime.and_utc().timestamp()
        Match(a, b, secs) ==
            IF unit = "Year" THEN I64OfInt(a.date.year - b.date.year)
            ELSE IF unit = "Month" THEN
                I64OfInt(a.date.year * 12 + a.date.month
                         - (b.date.year * 12 + b.date.month))
            ELSE IF unit = "Day" THEN
                I64TruncDiv(I64TruncDiv(I64TruncDiv(secs, 60), 60), 24)
            ELSE IF unit = "Hour" THEN I64TruncDiv(I64TruncDiv(secs, 60), 60)
            ELSE IF unit = "Minute" THEN I64TruncDiv(secs, 60)
            ELSE secs
    IN  Ok(I64Abs(Match(v.datetime, rhs.datetime,
                        I64Sub(timestamp(v.datetime), timestamp(rhs.datetime)))))

-----------------------------------------------------------------------------
(* The timestamp wrappers (src/src/timestamp.rs) and their conversions.     *)
(* The wrapped i64 is its sign and its magnitude in base 1000, the most     *)
(* significant limb first.                                                  *)

\* i64 / 1000^k as Rust divides: truncating toward zero
I64DivThousands(ts, k) ==
    [neg |-> ts.neg, limbs |-> SubSeq(ts.limbs, 1, Len(ts.limbs) - k)]

\* the magnitude as whole days and seconds of the day; None beyond two
\* thousand million days, which no NaiveDate reaches
RECURSIVE SecondsOfLimbs(_, _, _)
SecondsOfLimbs(limbs, days, secs) ==
    IF limbs = <<>> THEN Some(I64(days, secs))
    ELSE IF days > 2000000 THEN None
    ELSE SecondsOfLimbs(Tail(limbs),
                        days * 1000 + (secs * 1000 + Head(limbs)) \div SecsPerDay,
                        (secs * 1000 + Head(limbs)) % SecsPerDay)

\* chrono::DateTime::from_timestamp(secs, 0), then naive_utc(): the days are
\* secs.div_euclid(86400), the time of day secs.rem_euclid(86400)
from_timestamp(ts) ==
    LET Dated(secs) ==
            IF /\ secs.hi >= DaysFromCivil(MinDate)
               /\ secs.hi <= DaysFromCivil(MaxDate)
            THEN Some(NaiveDateTime(CivilFromDays(secs.hi), secs.lo))
            ELSE None
        Signed(magnitude) ==
            IF ~magnitude.some THEN None
            ELSE IF ts.neg THEN Dated(I64Neg(magnitude.v))
            ELSE Dated(magnitude.v)
    IN  Signed(SecondsOfLimbs(ts.limbs, 0, 0))

\* a derived default that ignores the Date and Time slots
BASE_DATETIME_FORMAT_get_fixed(reg) ==
    IF reg.datetime.some THEN reg.datetime.v
    ELSE <<"%Y", "-", "%m", "-", "%d", " ", "%H", ":", "%M", ":", "%S">>

\* GetInner<String>::get of BASE_DATETIME_FORMAT: the slot when it is set,
\* otherwise "{date default} {time default}"
BASE_DATETIME_FORMAT_get(reg) ==
    IF reg.datetime.some THEN reg.datetime.v
    ELSE reg.date \o <<" ">> \o reg.time

\* SpanBuilder::builder(): Self::default()
SpanBuilder_builder ==
    [date_format |-> None, time_format |-> None, datetime_format |-> None]

\* a build that writes only the slots its builder set
SpanBuilder_build_merging(b, reg) ==
    [date |-> IF b.date_format.some THEN b.date_format.v ELSE reg.date,
     time |-> IF b.time_format.some THEN b.time_format.v ELSE reg.time,
     datetime |-> IF b.datetime_format.some THEN b.datetime_format
                  ELSE reg.datetime]

\* SpanBuilder::build(&self): the three statics after the three writes
SpanBuilder_build(b, reg) ==
    [date |-> IF b.date_format.some THEN b.date_format.v
              ELSE <<"%Y", "-", "%m", "-", "%d">>,
     time |-> IF b.time_format.some THEN b.time_format.v
              ELSE <<"%H", ":", "%M", ":", "%S">>,
     datetime |-> IF b.datetime_format.some THEN Some(b.datetime_format.v)
                  ELSE None]

\* impl From<NaiveDate> for Date
Date_from(date, reg) == Date(date, reg.date)

\* a widening that drops the date: 1970-01-01 at the time, midnight for a
\* Date
DateTime_from_time_only(value, reg) ==
    DateTime(NaiveDateTime(NaiveDate(1970, 1, 1),
                           IF value.kind = "Time" THEN value.time ELSE 0),
             BASE_DATETIME_FORMAT_get(reg))

\* impl From<Date> for DateTime: the date at NaiveTime::default();
\* impl From<Time> for DateTime: NaiveDate::default() at the time
DateTime_from(value, reg) ==
    IF value.kind = "Date"
    THEN DateTime(NaiveDateTime(value.date, 0), BASE_DATETIME_FORMAT_get(reg))
    ELSE DateTime(NaiveDateTime(NaiveDate(1970, 1, 1), value.time),
                  BASE_DATETIME_FORMAT_get(reg))

\* a narrowing that hands the source's own pattern on
from_datetime_keeping_format(value, kind, reg) ==
    IF kind = "Date" THEN Date(value.datetime.date, value.format)
    ELSE Time(value.datetime.time, value.format)

\* impl From<DateTime> for Date and impl From<DateTime> for Time
from_datetime(value, kind, reg) ==
    IF kind = "Date" THEN Date(value.datetime.date, reg.date)
    ELSE Time(value.datetime.time, reg.time)

\* date.format(p), time.format(p), datetime.format(Some(p))
format(v, pattern) == [v EXCEPT !.format = pattern]

\* a rendering with the registry default of the value's kind
to_string_by_default(v, reg) ==
    Ok(Display(format(v, IF v.kind = "Date" THEN reg.date
                         ELSE IF v.kind = "Time" THEN reg.time
                         ELSE BASE_DATETIME_FORMAT_get(reg))))

\* value.to_string(): impl Display, which panics in to_string when the
\* formatter returns an error; the statics are in scope and not read
to_string(v, reg) == IF DisplayFails(v) THEN Panic ELSE Ok(Display(v))

\* datetime.clear_time(): the date at NaiveTime::default(), the format
\* BASE_DATETIME_FORMAT.get()
DateTime_clear_time(v, reg) ==
    DateTime(NaiveDateTime(v.datetime.date, 0), BASE_DATETIME_FORMAT_get(reg))

\* The earlier revision's serde glue (src/src/date.rs, src/src/datetime.rs).
\* The text written for the primary field is kept as the pieces written for
\* the items of the pattern, in order.

\* #[derive(Serialize)] with serialize_with = date_to_str / datetime_to_str:
\* the primary field is rendered with the static of the kind, whose
\* to_string panics when the formatter returns an error, and the format
\* field is written as it is
serialize(v, reg) ==
    LET pattern == IF v.kind = "Date" THEN reg.date
                   ELSE BASE_DATETIME_FORMAT_get(reg)
        piece(item) ==
            IF v.kind = "Date" THEN FormatDateItem(item, v.date)
            ELSE IF item \in TimeItems THEN FormatTimeItem(item, v.datetime.time)
            ELSE FormatDateItem(item, v.datetime.date)
    IN  IF DisplayFails([v EXCEPT !.format = pattern]) THEN Panic
        ELSE Ok([primary |-> [i \in DOMAIN pattern |-> piece(pattern[i])],
                 format |-> v.format])

\* what each numeric item reads: a year with its sign (the years
\* explored), the other fields as two digits
Numerals ==
    [item \in {"%Y", "%m", "%d"} \cup TimeItems |->
        IF item = "%Y"
        THEN [n \in {MinYear, MaxYear} \cup (1969 .. 2030) |->
                 FormatDateItem(item, [year |-> n])]
        ELSE [n \in 0 .. 99 |-> Pad2(n)]]

\* NaiveDate::parse_from_str / NaiveDateTime::parse_from_str: every literal
\* is matched, every numeric item is read (a year with its sign, the other
\* fields as one or two digits), a field read twice must agree, the year,
\* month, day (and for a datetime the hour and minute) must have been read,
\* a second not read is 0, and the fields must name a date and a time
parse_from_str(text, pattern, kind) ==
    LET read(item, piece) ==
            {n \in DOMAIN Numerals[item] : Numerals[item][n] = piece}
        field(item) ==
            UNION {read(item, text[i]) : i \in {j \in DOMAIN pattern : pattern[j] = item}}
        matched ==
            /\ Len(text) = Len(pattern)
            /\ \A i \in DOMAIN pattern :
                  IF pattern[i] \in DOMAIN Numerals
                  THEN read(pattern[i], text[i]) # {}
                  ELSE text[i] = pattern[i]
        one(item) == CHOOSE n \in field(item) : TRUE
        date == IF \A item \in {"%Y", "%m", "%d"} : Cardinality(field(item)) = 1
                THEN from_ymd_opt(one("%Y"), one("%m"), one("%d"))
                ELSE None
        time == IF /\ \A item \in {"%H", "%M"} : Cardinality(field(item)) = 1
                   /\ Cardinality(field("%S")) <= 1
                THEN from_hms_opt(one("%H"), one("%M"),
                                  IF field("%S") = {} THEN 0 ELSE one("%S"))
                ELSE None
    IN  IF ~matched \/ ~date.some THEN None
        ELSE IF kind = "Date" THEN date
        ELSE IF ~time.some THEN None
        ELSE Some(NaiveDateTime(date.v, time.v))

\* a deserialization that parses the primary field with the format field
deserialize_by_stored_format(wire, kind, reg) ==
    LET parsed == parse_from_str(wire.primary, wire.format, kind)
    IN  IF ~parsed.some THEN Err([variant |-> "custom"])
        ELSE IF kind = "Date" THEN Ok(Date(parsed.v, wire.format))
        ELSE Ok(DateTime(parsed.v, wire.format))

\* #[derive(Deserialize)] with deserialize_with = date_from_str /
\* datetime_from_str: the primary field is parsed with the static of the
\* kind, .map_err(de::Error::custom), and the format field is stored
deserialize(wire, kind, reg) ==
    LET parsed == parse_from_str(wire.primary,
                                 IF kind = "Date" THEN reg.date
                                 ELSE BASE_DATETIME_FORMAT_get(reg), kind)
    IN  IF ~parsed.some THEN Err([variant |-> "custom"])
        ELSE IF kind = "Date" THEN Ok(Date(parsed.v, wire.format))
        ELSE Ok(DateTime(parsed.v, wire.format))

\* Date::today(): Date::build(Local::now().format(BASE_DATE_FORMAT.get())),
\* which parses the text with BASE_DATE_FORMAT.get(); `now` is the reading
\* of the local clock
Date_today(now, reg) ==
    LET text == [i \in DOMAIN reg.date |->
                    IF reg.date[i] \in TimeItems
                    THEN FormatTimeItem(reg.date[i], now.time)
                    ELSE FormatDateItem(reg.date[i], now.date)]
        parsed == parse_from_str(text, reg.date, "Date")
    IN  IF ~parsed.some
        THEN Err(err_ctx([variant |-> "ParseFromStr"], "Date"))
        ELSE Ok(Date(parsed.v, reg.date))

\* a date that is in the future from today on
Date_is_in_future_from_today(v, now, reg) ==
    IF Date_today(now, reg).outcome # "Ok" THEN Date_today(now, reg)
    ELSE Ok(DaysFromCivil(v.date) >= DaysFromCivil(Date_today(now, reg).v.date))

\* date.is_in_future(): Ok(self.date > Self::today()?.date)
Date_is_in_future(v, now, reg) ==
    IF Date_today(now, reg).outcome # "Ok" THEN Date_today(now, reg)
    ELSE Ok(DaysFromCivil(v.date) > DaysFromCivil(Date_today(now, reg).v.date))

\* TryFrom<TimestampMilli>, TryFrom<TimestampMicro> and TryFrom<TimestampNano>
\* for DateTime: from_timestamp of *timestamp, of *timestamp / 1_000 and of
\* *timestamp / 1_000_000; `?` returns the cause as it is
DateTime_try_from_timestamp(wrapper, ts, reg) ==
    LET Result(datetime) ==
            IF datetime.some
            THEN Ok(DateTime(datetime.v, BASE_DATETIME_FORMAT_get(reg)))
            ELSE Err([variant |-> "ParseFromTimestamp",
                      text |-> "Error while parsing timestamp"])
    IN  IF wrapper = "TimestampMilli" THEN Result(from_timestamp(ts))
        ELSE IF wrapper = "TimestampMicro"
        THEN Result(from_timestamp(I64DivThousands(ts, 1)))
        ELSE Result(from_timestamp(I64DivThousands(ts, 2)))

\* Date::matches(unit, value: i32), src/src/date_module/mod.rs: the year is
\* compared as an i32, the month and the day with `value as u32`
Date_matches(v, unit, value) ==
    IF unit = "Year" THEN v.date.year = value
    ELSE IF unit = "Month" THEN U32OfNat(v.date.month) = AsU32(value)
    ELSE U32OfNat(v.date.day) = AsU32(value)

\* DateTime::matches(unit, value: u32), src/src/datetime_module/mod.rs: the
\* year is compared with `value as i32` (value - 2^32 from 2^31 on), the
\* other fields as u32
DateTime_matches(v, unit, value) ==
    IF unit = "Year"
    THEN v.datetime.date.year
             = (IF value[1] < 32768 THEN U32ToInt(value)
                ELSE (value[1] - 32768) * Limb + value[2] - I32Max - 1)
    ELSE IF unit = "Month" THEN U32OfNat(v.datetime.date.month) = value
    ELSE IF unit = "Day" THEN U32OfNat(v.datetime.date.day) = value
    ELSE IF unit = "Hour" THEN U32OfNat(hour(v.datetime.time)) = value
    ELSE IF unit = "Minute" THEN U32OfNat(minute(v.datetime.time)) = value
    ELSE U32OfNat(second(v.datetime.time)) = value

-----------------------------------------------------------------------------
(* #[derive(PartialEq, PartialOrd, Eq, Ord)] on struct Date { date, format }, *)
(* struct Time { time, format } and struct DateTime { datetime, format }      *)

\* String's Ord: the patterns compared byte by byte
String_lt(a, b) ==
    LET byte(c) ==
            CASE c = " " -> 32 [] c = "%" -> 37 [] c = "-" -> 45
              [] c = "/" -> 47 [] c = ":" -> 58 [] c = "H" -> 72
              [] c = "M" -> 77 [] c = "S" -> 83 [] c = "T" -> 84
              [] c = "Y" -> 89 [] c = "_" -> 95 [] c = "d" -> 100
              [] c = "m" -> 109
        \* the bytes of a pattern item: a specifier is '%' and its letter
        bytes(item) ==
            CASE item = "%Y" -> <<37, 89>> [] item = "%m" -> <<37, 109>>
              [] item = "%d" -> <<37, 100>> [] item = "%H" -> <<37, 72>>
              [] item = "%M" -> <<37, 77>> [] item = "%S" -> <<37, 83>>
              [] OTHER -> <<byte(item)>>
        RECURSIVE utf8(_)
        utf8(s) == IF s = <<>> THEN <<>> ELSE bytes(Head(s)) \o utf8(Tail(s))
        RECURSIVE lt(_, _)
        lt(x, y) ==
            IF y = <<>> THEN FALSE
            ELSE IF x = <<>> THEN TRUE
            ELSE IF Head(x) # Head(y) THEN Head(x) < Head(y)
            ELSE lt(Tail(x), Tail(y))
    IN  lt(utf8(a), utf8(b))

\* the derived PartialEq::eq: every field equal, in declaration order
derived_eq(a, b) ==
    /\ (IF a.kind = "Date" THEN a.date = b.date
        ELSE IF a.kind = "Time" THEN a.time = b.time
        ELSE a.datetime = b.datetime)
    /\ a.format = b.format

\* the derived PartialOrd::lt: the first field that differs decides
derived_lt(a, b) ==
    LET inner(v) ==
            IF v.kind = "Date" THEN I64(DaysFromCivil(v.date), 0)
            ELSE IF v.kind = "Time" THEN I64(0, v.time)
            ELSE timestamp(v.datetime)
    IN  IF inner(a) # inner(b) THEN I64Leq(inner(a), inner(b))
        ELSE String_lt(a.format, b.format)

-----------------------------------------------------------------------------
(* Construction from fields and the reset of one field to its epoch value *)

InvalidTime(h, m, s) ==
    [variant |-> "InvalidTime", hour |-> h, minute |-> m, second |-> s]

\* SpanError::ClearUnit("Error while setting .. to ..".to_string())
ClearUnit(unit) ==
    [variant |-> "ClearUnit",
     text |-> CASE unit = "Year" -> "Error while setting year to 1970"
                [] unit = "Month" -> "Error while setting month to 1"
                [] unit = "Day" -> "Error while setting day to 1"
                [] unit = "Hour" -> "Error while setting hour to 0"
                [] unit = "Minute" -> "Error while setting minute to 0"
                [] unit = "Second" -> "Error while setting second to 0"]

\* Time::new(hour, minute, second)
Time_new(h, m, s, reg) ==
    LET time == from_hms_opt(h, m, s)
    IN  IF ~time.some THEN Err(err_ctx(InvalidTime(h, m, s), "Time"))
        ELSE Ok(Time(time.v, reg.time))

\* DateTime::new(year, month, day)
DateTime_new(year, month, day, reg) ==
    LET date == from_ymd_opt(year, month, day)
    IN  IF ~date.some
        THEN Err(err_ctx([variant |-> "InvalidDate", year |-> year,
                          month |-> month, day |-> day], "DateTime"))
        ELSE Ok(DateTime(NaiveDateTime(date.v, 0),
                         BASE_DATETIME_FORMAT_get(reg)))

\* datetime.with_time(hour, minute, second)
DateTime_with_time(v, h, m, s) ==
    LET time == from_hms_opt(h, m, s)
    IN  IF ~time.some THEN Err(err_ctx(InvalidTime(h, m, s), "DateTime"))
        ELSE Ok(DateTime(NaiveDateTime(v.datetime.date, time.v), v.format))

\* DateTime::now(): Self::new(year, month, day)?.with_time(hour, minute,
\* second) of the reading of the local clock
DateTime_now(now, reg) ==
    LET date == DateTime_new(now.date.year, now.date.month, now.date.day, reg)
    IN  IF date.outcome # "Ok" THEN date
        ELSE DateTime_with_time(date.v, hour(now.time), minute(now.time),
                                second(now.time))

\* datetime.is_in_future(): Ok(self.datetime > now.datetime), now built as
\* DateTime::now() builds it
DateTime_is_in_future(v, now, reg) ==
    IF DateTime_now(now, reg).outcome # "Ok" THEN DateTime_now(now, reg)
    ELSE Ok(/\ timestamp(v.datetime) # timestamp(DateTime_now(now, reg).v.datetime)
            /\ I64Leq(timestamp(DateTime_now(now, reg).v.datetime),
                      timestamp(v.datetime)))

\* NaiveTime::with_hour(0), with_minute(0), with_second(0)
NaiveTime_with_zero(time, unit) ==
    IF unit = "Hour" THEN from_hms_opt(0, minute(time), second(time))
    ELSE IF unit = "Minute" THEN from_hms_opt(hour(time), 0, second(time))
    ELSE from_hms_opt(hour(time), minute(time), 0)

\* time.clear_unit(unit)
Time_clear_unit(v, unit) ==
    LET time == NaiveTime_with_zero(v.time, unit)
    IN  IF ~time.some
        THEN Err(err_ctx(ClearUnit(unit), "Time"))
        ELSE Ok(Time(time.v, v.format))

\* a reset that truncates: the named field and every smaller field of the
\* date go to their epoch values
NaiveDateTime_truncated(datetime, unit) ==
    IF unit = "Year" THEN Some(NaiveDateTime(NaiveDate(1970, 1, 1), datetime.time))
    ELSE IF unit \in {"Month", "Day"}
    THEN Some(NaiveDateTime(NaiveDate(datetime.date.year, 1, 1), datetime.time))
    ELSE Some(NaiveDateTime(datetime.date, 0))

\* NaiveDateTime::with_year(1970), with_month(1), with_day(1), with_hour(0),
\* with_minute(0), with_second(0): None when the fields name no date
NaiveDateTime_with_epoch(datetime, unit) ==
    LET WithDate(date) ==
            IF date.some THEN Some(NaiveDateTime(date.v, datetime.time))
            ELSE None
        WithTime(time) ==
            IF time.some THEN Some(NaiveDateTime(datetime.date, time.v))
            ELSE None
    IN  IF unit = "Year"
        THEN WithDate(from_ymd_opt(1970, datetime.date.month,
                                   datetime.date.day))
        ELSE IF unit = "Month"
        THEN WithDate(from_ymd_opt(datetime.date.year, 1, datetime.date.day))
        ELSE IF unit = "Day"
        THEN WithDate(from_ymd_opt(datetime.date.year, datetime.date.month, 1))
        ELSE WithTime(NaiveTime_with_zero(datetime.time, unit))

\* datetime.clear_unit(unit)
DateTime_clear_unit(v, unit) ==
    LET datetime == NaiveDateTime_with_epoch(v.datetime, unit)
    IN  IF ~datetime.some
        THEN Err(err_ctx(ClearUnit(unit), "DateTime"))
        ELSE Ok(DateTime(datetime.v, v.format))

-----------------------------------------------------------------------------
(* The earlier revisions (src/src/date.rs, src/src/datetime.rs), whose       *)
(* update takes &mut self: [self, res] is the receiver after the call and    *)
(* what the call returned                                                    *)

\* an update in place that stores the nearest representable date when the
\* date it computed is None
Date_update_mut_saturating(v, unit, value, overflow_checks) ==
    LET Result(date) ==
            IF date.panic THEN [self |-> v, res |-> Panic]
            ELSE IF date.v.some
            THEN [self |-> [v EXCEPT !.date = date.v.v], res |-> Ok(<<>>)]
            ELSE [self |-> [v EXCEPT !.date = IF value > 0 THEN MaxDate
                                               ELSE MinDate],
                  res |-> Err("Cannot Add/Remove")]
    IN  Result(Date_update_match(v, unit, value, overflow_checks))

\* Date::update of src/src/date.rs: Result<(), String>
Date_update_mut(v, unit, value, overflow_checks) ==
    LET \* Err(format!("Cannot Add/Remove {} {:?} to/from {}", ..))
        Failed(error) ==
            IF error.outcome = "Panic" THEN Panic
            ELSE Err(error.e.inner.text)
        \* the match on the computed date
        Result(date) ==
            IF date.panic THEN [self |-> v, res |-> Panic]
            ELSE IF date.v.some
            THEN [self |-> [v EXCEPT !.date = date.v.v], res |-> Ok(<<>>)]
            ELSE [self |-> v,
                  res |-> Failed(InvalidUpdateError(v, unit, value, "Date"))]
    IN  Result(Date_update_match(v, unit, value, overflow_checks))

\* DateTime::update of src/src/datetime.rs: Result<(), SpanError>
DateTime_update_mut(v, unit, value, overflow_checks) ==
    LET \* the match on the computed datetime
        Result(datetime) ==
            IF datetime.panic THEN [self |-> v, res |-> Panic]
            ELSE IF datetime.v.some
            THEN [self |-> [v EXCEPT !.datetime = datetime.v.v],
                  res |-> Ok(<<>>)]
            ELSE [self |-> v,
                  res |-> InvalidUpdateError(v, unit, value, "DateTime")]
    IN  Result(DateTime_update_match(v, unit, value, overflow_checks))

\* DateTime::unit_in_between (returns a bare i32): the match on the unit and
\* its `.abs()`.  The Day, Hour, Minute and Second arms subtract the two
\* timestamps after `as i32`; like i32::abs, the subtraction panics when
\* overflow checks are compiled in and wraps otherwise.
unit_in_between(v, lhs, unit, overflow_checks) ==
    LET \* i32::abs: i32::MIN has no positive counterpart
        I32Abs(n) ==
            IF n = I32Min
            THEN (IF overflow_checks THEN [panic |-> TRUE] ELSE Computed(n))
            ELSE Computed(Abs(n))
        \* x - y on i32
        I32Sub(x, y) ==
            IF /\ overflow_checks
               /\ \/ (y < 0 /\ x > I32Max + y)
                  \/ (y > 0 /\ x < I32Min + y)
            THEN [panic |-> TRUE]
            ELSE IF y < 0 /\ x > I32Max + y
            THEN Computed((x + I32Min) + (I32Min - y))
            ELSE IF y > 0 /\ x < I32Min + y
            THEN Computed((x - I32Min) + (I32Max - y) + 1)
            ELSE Computed(x - y)
        \* the match on the unit; secs is the difference of the timestamps
        Match(a, b, secs) ==
            IF unit = "Year" THEN Computed(a.date.year - b.date.year)
            ELSE IF unit = "Month" THEN
                Computed(a.date.year * 12 + a.date.month
                         - (b.date.year * 12 + b.date.month))
            ELSE IF secs.panic THEN secs
            ELSE IF unit = "Day" THEN
                Computed(TruncDiv(TruncDiv(TruncDiv(secs.v, 60), 60), 24))
            ELSE IF unit = "Hour" THEN
                Computed(TruncDiv(TruncDiv(secs.v, 60), 60))
            ELSE IF unit = "Minute" THEN Computed(TruncDiv(secs.v, 60))
            ELSE secs
        Returned(m) == IF m.panic THEN Panic ELSE Ok(m.v)
        MatchAbs(n) == IF n.panic THEN Panic ELSE Returned(I32Abs(n.v))
    IN  MatchAbs(Match(v.datetime, lhs.datetime,
                       I32Sub(I64AsI32(timestamp(v.datetime)),
                              I64AsI32(timestamp(lhs.datetime)))))

-----------------------------------------------------------------------------
(* Date::unit_elapsed and the clock it reads *)

\* a reading of Utc::now()
Utc(date, time, nanos) == [date |-> date, time |-> time, nanos |-> nanos]

\* the clock does not run backwards
UtcLeq(a, b) ==
    \/ timestamp(a) # timestamp(b) /\ I64Leq(timestamp(a), timestamp(b))
    \/ timestamp(a) = timestamp(b) /\ a.nanos <= b.nanos

\* TryFrom<&Date> for chrono::DateTime<Utc>: the clock reading with its
\* year, then its day, then its month replaced
Date_try_into_utc(v, now) ==
    LET \* the reading with its date replaced, when there is such a date
        with_date(utc, date) ==
            IF date.some THEN Some(Utc(date.v, utc.time, utc.nanos)) ELSE None
        with_year(utc, year) ==
            with_date(utc, from_ymd_opt(year, utc.date.month, utc.date.day))
        with_month(utc, month) ==
            with_date(utc, from_ymd_opt(utc.date.year, month, utc.date.day))
        with_day(utc, day) ==
            with_date(utc, from_ymd_opt(utc.date.year, utc.date.month, day))
        \* .and_then(|utc| utc.with_day(date.day()))
        and_then_with_day(utc) ==
            IF utc.some THEN with_day(utc.v, v.date.day) ELSE None
        \* .and_then(|utc| utc.with_month(date.month()))
        and_then_with_month(utc) ==
            IF utc.some THEN with_month(utc.v, v.date.month) ELSE None
        \* Some(utc) => Ok(utc),
        \* None => Err(SpanError::InvalidUtc).err_ctx(DateError)
        Matched(utc) ==
            IF utc.some THEN Ok(utc.v)
            ELSE Err(err_ctx([variant |-> "InvalidUtc"], "Date"))
    IN  Matched(and_then_with_month(and_then_with_day(
                    with_year(now, v.date.year))))

\* the Day arm of Date::unit_elapsed after the two conversions:
\* self_utc.signed_duration_since(lhs_utc).num_days()
Date_days_elapsed(self_utc, lhs_utc) ==
    LET \* TimeDelta::num_seconds of [secs, nanos]: rounded toward zero
        num_seconds(secs, nanos) ==
            IF I64IsNeg(secs) /\ nanos > 0 THEN I64Sub(secs, I64OfInt(-1))
            ELSE secs
        \* a / 86400, truncating toward zero
        TruncDivDay(a) ==
            IF I64IsNeg(a) THEN I64OfInt(-(I64Neg(a).hi)) ELSE I64OfInt(a.hi)
        \* the TimeDelta a - b as whole seconds and 0 <= nanos < 10^9, then
        \* num_days
        num_days(whole, a_nanos, b_nanos) ==
            TruncDivDay(
                IF a_nanos < b_nanos
                THEN num_seconds(I64Sub(whole, I64OfInt(1)),
                                 a_nanos - b_nanos + 1000000000)
                ELSE num_seconds(whole, a_nanos - b_nanos))
        signed_duration_since(a, b) ==
            num_days(I64Sub(timestamp(a), timestamp(b)), a.nanos, b.nanos)
    IN  IF self_utc.outcome = "Err" THEN self_utc
        ELSE IF lhs_utc.outcome = "Err" THEN lhs_utc
        ELSE Ok(signed_duration_since(self_utc.v, lhs_utc.v))

\* A count whose Month arm subtracts the month fields only
Date_unit_elapsed_month_field(v, rhs, unit, now1, now2) ==
    IF unit = "Year" THEN Ok(I64OfInt(v.date.year - rhs.date.year))
    ELSE IF unit = "Month" THEN Ok(I64OfInt(v.date.month - rhs.date.month))
    ELSE Date_days_elapsed(Date_try_into_utc(v, now1),
                           Date_try_into_utc(rhs, now2))

\* Date::unit_elapsed; now1 and now2 are the clock readings of the two
\* conversions of the Day arm
Date_unit_elapsed(v, rhs, unit, now1, now2) ==
    IF unit = "Year" THEN Ok(I64OfInt(v.date.year - rhs.date.year))
    ELSE IF unit = "Month" THEN
        Ok(I64OfInt(v.date.year * 12 + v.date.month
                    - (rhs.date.year * 12 + rhs.date.month)))
    ELSE Date_days_elapsed(Date_try_into_utc(v, now1),
                           Date_try_into_utc(rhs, now2))

-----------------------------------------------------------------------------
(* elapsed: the chrono::TimeDelta between two values, in whole seconds *)

\* Date::elapsed: self.date.signed_duration_since(lhs.date), whole days
Date_elapsed(v, lhs) ==
    TimeDelta(DaysFromCivil(v.date) - DaysFromCivil(lhs.date), 0)

\* Time::elapsed: self.time.signed_duration_since(lhs.time)
Time_elapsed(v, lhs) == NaiveTime_signed_duration_since(v.time, lhs.time)

\* An elapsed time that keeps the magnitude only
DateTime_elapsed_magnitude(v, lhs) ==
    I64Abs(I64Sub(timestamp(v.datetime), timestamp(lhs.datetime)))

\* DateTime::elapsed: self.datetime.signed_duration_since(lhs.datetime)
DateTime_elapsed(v, lhs) ==
    I64Sub(timestamp(v.datetime), timestamp(lhs.datetime))

-----------------------------------------------------------------------------
(* The values, arguments and clock readings explored *)

MaxSteps == 1

DateFormat == <<"%Y", "-", "%m", "-", "%d">>

SlashDateFormat == <<"%d", "/", "%m", "/", "%Y">>

TimeFormat == <<"%H", ":", "%M", ":", "%S">>

DateTimeFormat == DateFormat \o <<" ">> \o TimeFormat

Ymd(y, m, d) == from_ymd_opt(y, m, d).v

Hms(h, m, s) == from_hms_opt(h, m, s).v

\* The values explored, by the parameter they are given to
\*   DateArgs: the dates passed as `rhs`
\*   DateTimeArgs: the datetimes passed as `rhs` / `lhs`
\*   Values: the i32 deltas passed to update
\*   Timestamps: the i64 values wrapped: the timestamps of the tests, values about zero,
\*     at the ends of the representable datetimes and at the ends of i64
\*   FieldArgs: the arguments passed to Time::new and with_time (u32 hours, minutes and
\*     seconds) and to DateTime::new (i32 years, u32 months and days)
\*   Clock: readings of Utc::now()
\*   Patterns: the patterns given to the builder and to format
Inputs ==
    [ Dates |->
            { Date(Ymd(2023, 1, 31), DateFormat), Date(Ymd(2024, 1, 31), DateFormat),
              Date(Ymd(2023, 12, 9), DateFormat), Date(Ymd(2023, 10, 9), DateFormat),
              Date(Ymd(2023, 10, 9), SlashDateFormat),
              Date(Ymd(2023, 10, 9), DateFormat \o <<" ", "%H", ":", "%M">>),
              Date(Ymd(2024, 2, 28), DateFormat), Date(Ymd(2023, 2, 28), DateFormat),
              Date(Ymd(2024, 2, 29), DateFormat), Date(Ymd(1900, 2, 28), DateFormat),
              Date(Ymd(2000, 2, 28), DateFormat), Date(Ymd(2020, 2, 8), DateFormat),
              Date(Ymd(2024, 3, 12), DateFormat),
              Date(MaxDate, DateFormat), Date(MinDate, DateFormat) },
      DateArgs |->
            { Date(Ymd(2023, 10, 9), DateFormat), Date(Ymd(2020, 2, 8), DateFormat),
              Date(Ymd(2024, 2, 29), DateFormat), Date(Ymd(2024, 3, 31), DateFormat),
              Date(Ymd(2024, 1, 12), DateFormat), Date(MinDate, DateFormat) },
      Times |->
            { Time(Hms(0, 0, 0), TimeFormat), Time(Hms(23, 59, 59), TimeFormat),
              Time(Hms(1, 34, 45), TimeFormat), Time(Hms(1, 0, 0), TimeFormat),
              Time(Hms(12, 0, 0), <<"%H", "_", "%M", "_", "%S">>) },
      DateTimes |->
            { DateTime(NaiveDateTime(Ymd(2023, 10, 9), Hms(23, 59, 34)), DateTimeFormat),
              DateTime(NaiveDateTime(Ymd(2023, 10, 9), Hms(0, 0, 0)), DateTimeFormat),
              DateTime(NaiveDateTime(Ymd(2023, 10, 9), Hms(1, 1, 1)), DateTimeFormat),
              DateTime(NaiveDateTime(Ymd(2023, 1, 31), Hms(12, 9, 27)), DateTimeFormat),
              DateTime(NaiveDateTime(Ymd(2024, 1, 31), Hms(12, 9, 27)),
                       SlashDateFormat \o <<"T">> \o TimeFormat),
              DateTime(NaiveDateTime(Ymd(2024, 2, 28), Hms(0, 0, 0)), DateTimeFormat),
              DateTime(NaiveDateTime(Ymd(2023, 2, 28), Hms(23, 59, 59)), DateTimeFormat),
              DateTime(NaiveDateTime(Ymd(2040, 1, 1), Hms(0, 0, 0)), DateTimeFormat),
              DateTime(NaiveDateTime(Ymd(2023, 5, 17), Hms(9, 5, 12)), DateTimeFormat),
              DateTime(NaiveDateTime(Ymd(2024, 2, 29), Hms(9, 5, 12)), DateTimeFormat),
              DateTime(NaiveDateTime(Ymd(2110, 7, 4), Hms(3, 14, 8)), DateTimeFormat),
              DateTime(NaiveDateTime(Ymd(200000, 6, 15), Hms(12, 0, 0)), DateTimeFormat),
              DateTime(NaiveDateTime(MaxDate, Hms(23, 59, 59)), DateTimeFormat),
              DateTime(NaiveDateTime(MinDate, Hms(0, 0, 0)), DateTimeFormat) },
      DateTimeArgs |->
            { DateTime(NaiveDateTime(Ymd(2023, 10, 8), Hms(0, 0, 0)), DateTimeFormat),
              DateTime(NaiveDateTime(Ymd(2023, 10, 9), Hms(23, 59, 34)), DateTimeFormat),
              DateTime(NaiveDateTime(Ymd(2020, 2, 8), Hms(18, 30, 0)), DateTimeFormat),
              DateTime(NaiveDateTime(Ymd(2040, 1, 1), Hms(0, 0, 0)), DateTimeFormat),
              DateTime(NaiveDateTime(MinDate, Hms(0, 0, 0)), DateTimeFormat) },
      Values |->
            { I32Min, -357913942, -13, -1, 0, 1, 13, 366, 90061, 357913942, I32Max },
      Timestamps |->
            { [neg |-> FALSE, limbs |-> <<1, 735, 683, 10>>],
              [neg |-> FALSE, limbs |-> <<1, 735, 683, 10, 0>>],
              [neg |-> FALSE, limbs |-> <<1, 735, 683, 10, 0, 0>>],
              [neg |-> FALSE, limbs |-> <<1, 735, 683, 10, 999, 999, 999>>],
              [neg |-> FALSE, limbs |-> <<0>>],
              [neg |-> TRUE, limbs |-> <<1>>],
              [neg |-> TRUE, limbs |-> <<1, 500>>],
              [neg |-> TRUE, limbs |-> <<86, 400, 1, 0, 0>>],
              [neg |-> FALSE, limbs |-> <<8, 210, 266, 876, 799>>],
              [neg |-> FALSE, limbs |-> <<8, 210, 266, 876, 800, 0>>],
              [neg |-> TRUE, limbs |-> <<8, 334, 601, 228, 800>>],
              [neg |-> TRUE, limbs |-> <<8, 334, 601, 228, 801>>],
              [neg |-> FALSE, limbs |-> <<9, 223, 372, 36, 854, 775, 807>>],
              [neg |-> TRUE, limbs |-> <<9, 223, 372, 36, 854, 775, 808>>] },
      FieldArgs |->
            [hour |-> {0, 9, 23, 24}, minute |-> {0, 5, 59, 60},
             second |-> {0, 12, 59, 60}, year |-> {1970, 2023, 2024, MaxYear + 1},
             month |-> {0, 1, 2, 12, 13}, day |-> {0, 1, 29, 31, 32}],
      Clock |->
            { Utc(Ymd(2026, 11, 2), Hms(10, 0, 0), 0),
          Utc(Ymd(2026, 11, 3), Hms(10, 0, 0), 0),
              Utc(Ymd(2026, 11, 2), Hms(23, 59, 59), 999999999),
              Utc(Ymd(2026, 11, 3), Hms(0, 0, 0), 0),
              Utc(Ymd(2028, 2, 29), Hms(12, 0, 0), 0) },
      Patterns |->
            [Date |-> {SlashDateFormat}, Time |-> {<<"%H", "_", "%M", "_", "%S">>},
             DateTime |-> {SlashDateFormat \o <<"T">> \o TimeFormat}] ]

\* enum DateUnit, enum TimeUnit, enum DateTimeUnit
Units ==
    [Date |-> {"Year", "Month", "Day"}, Time |-> {"Hour", "Minute", "Second"},
     DateTime |-> {"Year", "Month", "Day", "Hour", "Minute", "Second"}]

-----------------------------------------------------------------------------
(* The state machine: a caller holding one value and calling its methods. *)
(* `self` is the value held, `last` the last call with its receiver, its  *)
(* arguments and what it returned, `steps` the number of rebindings.      *)

\* The caller goes on from a constructor or from a `next` that returned Ok
\* (`?` returns the error, a panic unwinds the thread).  What update,
\* unit_elapsed and unit_in_between return is inspected and ends the run:
\* these calls leave the receiver as it was.
Running == last.op \in {"new", "next"} /\ last.res.outcome = "Ok"

\* the registry of default patterns as the statics are initialised
BaseFormats == [date |-> DateFormat, time |-> TimeFormat, datetime |-> None]

\* the value held is one the tests build or the one Date::today() or
\* DateTime::now() returned at a reading of the clock
Init ==
    /\ self \in Inputs.Dates \cup Inputs.Times \cup Inputs.DateTimes
                \cup {Date_today(now, BaseFormats).v : now \in Inputs.Clock}
                \cup {DateTime_now(now, BaseFormats).v : now \in Inputs.Clock}
    /\ last = [op |-> "new", res |-> Ok(self)]
    /\ steps = 0
    /\ registry = BaseFormats
    /\ builder = None
    /\ threads = <<>>

\* let new_value = value.update(unit, delta)
Updated(unit, value, res) ==
    /\ last' = [op |-> "update", recv |-> self, unit |-> unit, value |-> value,
                res |-> res]
    /\ UNCHANGED <<self, steps, registry, builder, threads>>

\* value = value.next(unit)?
Rebound(unit, res) ==
    /\ last' = [op |-> "next", recv |-> self, unit |-> unit, value |-> 1,
                res |-> res]
    /\ self' = IF res.outcome = "Ok" THEN res.v ELSE self
    /\ steps' = steps + 1
    /\ UNCHANGED <<registry, builder, threads>>

\* value.unit_elapsed(&rhs, unit)
Elapsed(op, rhs, unit, res) ==
    /\ last' = [op |-> op, recv |-> self, rhs |-> rhs, unit |-> unit,
                res |-> res]
    /\ UNCHANGED <<self, steps, registry, builder, threads>>

DateUpdate ==
    /\ Running /\ self.kind = "Date"
    /\ \E unit \in Units.Date, value \in Inputs.Values, overflow_checks \in BOOLEAN :
         Updated(unit, value, Date_update(self, unit, value, overflow_checks))

DateNext ==
    /\ Running /\ self.kind = "Date" /\ steps < MaxSteps
    /\ \E unit \in Units.Date, overflow_checks \in BOOLEAN :
         Rebound(unit, Date_update(self, unit, 1, overflow_checks))

DateUnitElapsed ==
    /\ Running /\ self.kind = "Date"
    /\ \/ \E rhs \in Inputs.DateArgs, unit \in {"Year", "Month"} :
            Elapsed("unit_elapsed", rhs, unit,
                    Date_unit_elapsed(self, rhs, unit, <<>>, <<>>))
       \/ \E rhs \in Inputs.DateArgs, now1 \in Inputs.Clock, now2 \in Inputs.Clock :
            /\ UtcLeq(now1, now2)
            /\ last' = [op |-> "unit_elapsed", recv |-> self, rhs |-> rhs,
                        unit |-> "Day", now1 |-> now1, now2 |-> now2,
                        res |-> Date_unit_elapsed(self, rhs, "Day", now1, now2)]
            /\ UNCHANGED <<self, steps, registry, builder, threads>>

\* date.elapsed(&lhs): a Duration, no Result
DateElapsed ==
    /\ Running /\ self.kind = "Date"
    /\ \E lhs \in Inputs.DateArgs :
         Elapsed("elapsed", lhs, "Second", Ok(Date_elapsed(self, lhs)))

TimeUpdate ==
    /\ Running /\ self.kind = "Time"
    /\ \E unit \in Units.Time, value \in Inputs.Values :
         Updated(unit, value, Time_update(self, unit, value))

TimeNext ==
    /\ Running /\ self.kind = "Time" /\ steps < MaxSteps
    /\ \E unit \in Units.Time : Rebound(unit, Time_update(self, unit, 1))

TimeUnitElapsed ==
    /\ Running /\ self.kind = "Time"
    /\ \E rhs \in Inputs.Times, unit \in Units.Time :
         Elapsed("unit_elapsed", rhs, unit, Time_unit_elapsed(self, rhs, unit))

\* time.elapsed(&lhs)
TimeElapsed ==
    /\ Running /\ self.kind = "Time"
    /\ \E lhs \in Inputs.Times :
         Elapsed("elapsed", lhs, "Second", Ok(Time_elapsed(self, lhs)))

DateTimeUpdate ==
    /\ Running /\ self.kind = "DateTime"
    /\ \E unit \in Units.DateTime, value \in Inputs.Values, overflow_checks \in BOOLEAN :
         Updated(unit, value,
                 DateTime_update(self, unit, value, overflow_checks))

DateTimeNext ==
    /\ Running /\ self.kind = "DateTime" /\ steps < MaxSteps
    /\ \E unit \in Units.DateTime, overflow_checks \in BOOLEAN :
         Rebound(unit, DateTime_update(self, unit, 1, overflow_checks))

DateTimeUnitElapsed ==
    /\ Running /\ self.kind = "DateTime"
    /\ \E rhs \in Inputs.DateTimeArgs, unit \in Units.DateTime :
         Elapsed("unit_elapsed", rhs, unit,
                 DateTime_unit_elapsed(self, rhs, unit))

\* datetime.elapsed(&lhs)
DateTimeElapsed ==
    /\ Running /\ self.kind = "DateTime"
    /\ \E lhs \in Inputs.DateTimeArgs :
         Elapsed("elapsed", lhs, "Second", Ok(DateTime_elapsed(self, lhs)))

\* DateTime::try_from(timestamp)
DateTimeTryFromTimestamp ==
    /\ Running
    /\ \E wrapper \in {"TimestampMilli", "TimestampMicro", "TimestampNano"},
          ts \in Inputs.Timestamps :
         /\ last' = [op |-> "try_from", wrapper |-> wrapper, ts |-> ts,
                     res |-> DateTime_try_from_timestamp(wrapper, ts,
                                                         registry)]
         /\ UNCHANGED <<self, steps, registry, builder, threads>>

\* Time::new(hour, minute, second)
TimeNew ==
    /\ Running
    /\ \E h \in Inputs.FieldArgs.hour, m \in Inputs.FieldArgs.minute, s \in Inputs.FieldArgs.second :
         /\ last' = [op |-> "Time::new", hour |-> h, minute |-> m,
                     second |-> s, res |-> Time_new(h, m, s, registry)]
         /\ UNCHANGED <<self, steps, registry, builder, threads>>

\* DateTime::new(year, month, day)
DateTimeNew ==
    /\ Running
    /\ \E year \in Inputs.FieldArgs.year, month \in Inputs.FieldArgs.month,
          day \in Inputs.FieldArgs.day :
         /\ last' = [op |-> "DateTime::new", year |-> year, month |-> month,
                     day |-> day,
                     res |-> DateTime_new(year, month, day, registry)]
         /\ UNCHANGED <<self, steps, registry, builder, threads>>

\* datetime.clone().with_time(hour, minute, second)
DateTimeWithTime ==
    /\ Running /\ self.kind = "DateTime"
    /\ \E h \in Inputs.FieldArgs.hour, m \in Inputs.FieldArgs.minute, s \in Inputs.FieldArgs.second :
         /\ last' = [op |-> "with_time", recv |-> self, hour |-> h,
                     minute |-> m, second |-> s,
                     res |-> DateTime_with_time(self, h, m, s)]
         /\ UNCHANGED <<self, steps, registry, builder, threads>>

\* value.clear_unit(unit)
Cleared(unit, res) ==
    /\ last' = [op |-> "clear_unit", recv |-> self, unit |-> unit, res |-> res]
    /\ UNCHANGED <<self, steps, registry, builder, threads>>

TimeClearUnit ==
    /\ Running /\ self.kind = "Time"
    /\ \E unit \in Units.Time : Cleared(unit, Time_clear_unit(self, unit))

DateTimeClearUnit ==
    /\ Running /\ self.kind = "DateTime"
    /\ \E unit \in Units.DateTime :
         Cleared(unit, DateTime_clear_unit(self, unit))

\* value.update(unit, delta) on a `mut value`, src/src/date.rs and
\* src/src/datetime.rs
UpdatedInPlace(unit, value, overflow_checks, updated) ==
    /\ last' = [op |-> "update_mut", recv |-> self, unit |-> unit,
                value |-> value, overflow_checks |-> overflow_checks,
                res |-> updated.res]
    /\ self' = updated.self
    /\ steps' = steps + 1
    /\ UNCHANGED <<registry, builder, threads>>

DateUpdateMut ==
    /\ Running /\ self.kind = "Date" /\ steps < MaxSteps
    /\ \E unit \in Units.Date, value \in Inputs.Values, overflow_checks \in BOOLEAN :
         UpdatedInPlace(unit, value, overflow_checks,
                        Date_update_mut(self, unit, value, overflow_checks))

DateTimeUpdateMut ==
    /\ Running /\ self.kind = "DateTime" /\ steps < MaxSteps
    /\ \E unit \in Units.DateTime, value \in Inputs.Values,
          overflow_checks \in BOOLEAN :
         UpdatedInPlace(unit, value, overflow_checks,
                        DateTime_update_mut(self, unit, value, overflow_checks))

\* value == rhs, value < rhs
Compared ==
    /\ Running
    /\ \E rhs \in (IF self.kind = "Date" THEN Inputs.DateArgs
                    ELSE IF self.kind = "Time" THEN Inputs.Times ELSE Inputs.DateTimeArgs) :
         /\ last' = [op |-> "cmp", recv |-> self, rhs |-> rhs,
                     eq |-> derived_eq(self, rhs),
                     lt |-> derived_lt(self, rhs)]
         /\ UNCHANGED <<self, steps, registry, builder, threads>>

\* value.matches(unit, x): an i32 for a Date, a u32 for a DateTime
Matched ==
    /\ Running
    /\ \/ /\ self.kind = "Date"
          /\ \E unit \in Units.Date,
                value \in {I32Min, MinYear, -2023, -9, -1, 1, 9, 10, 2023} :
               last' = [op |-> "matches", recv |-> self, unit |-> unit,
                        value |-> value,
                        res |-> Ok(Date_matches(self, unit, value))]
       \/ /\ self.kind = "DateTime"
          /\ \E unit \in Units.DateTime,
                value \in {U32OfNat(n) : n \in {0, 1, 9, 10, 2023}}
                             \cup {AsU32(n) : n \in {I32Min, MinYear, -2023, -1}} :
               last' = [op |-> "matches", recv |-> self, unit |-> unit,
                        value |-> value,
                        res |-> Ok(DateTime_matches(self, unit, value))]
    /\ UNCHANGED <<self, steps, registry, builder, threads>>

\* value.is_in_future(), the clock reading `now`
IsInFuture ==
    /\ Running /\ self.kind # "Time"
    /\ \E now \in Inputs.Clock :
         last' = [op |-> "is_in_future", recv |-> self, now |-> now,
                  res |-> IF self.kind = "Date"
                          THEN Date_is_in_future(self, now, registry)
                          ELSE DateTime_is_in_future(self, now, registry)]
    /\ UNCHANGED <<self, steps, registry, builder, threads>>

\* datetime.unit_in_between(unit, &lhs), src/src/datetime.rs
DateTimeUnitInBetween ==
    /\ Running /\ self.kind = "DateTime"
    /\ \E lhs \in Inputs.DateTimeArgs, unit \in Units.DateTime,
          overflow_checks \in BOOLEAN :
         Elapsed("unit_in_between", lhs, unit,
                 unit_in_between(self, lhs, unit, overflow_checks))

Next ==
    \/ DateUpdate
    \/ DateNext
    \/ DateUnitElapsed
    \/ DateElapsed
    \/ TimeUpdate
    \/ TimeNext
    \/ TimeUnitElapsed
    \/ TimeElapsed
    \/ DateTimeUpdate
    \/ DateTimeNext
    \/ DateTimeUnitElapsed
    \/ DateTimeElapsed
    \/ DateTimeTryFromTimestamp
    \/ TimeNew
    \/ DateTimeNew
    \/ DateTimeWithTime
    \/ TimeClearUnit
    \/ DateTimeClearUnit
    \/ Compared
    \/ Matched
    \/ IsInFuture
    \/ DateUpdateMut
    \/ DateTimeUpdateMut
    \/ DateTimeUnitInBetween

Spec == Init /\ [][Next]_vars

-----------------------------------------------------------------------------
(* The state machine of the registry: a caller that configures the default *)
(* patterns with a SpanBuilder, constructs values and renders them.        *)

InitRegistry ==
    /\ self \in { Date(Ymd(2023, 1, 1), DateFormat),
                  Time(Hms(12, 0, 0), TimeFormat),
                  DateTime(NaiveDateTime(Ymd(2023, 1, 1), Hms(12, 0, 0)),
                           DateTimeFormat) }
    /\ last = [op |-> "new", res |-> Ok(self)]
    /\ steps = 0
    /\ registry = BaseFormats
    /\ builder = None
    /\ threads = <<>>

\* let mut builder = SpanBuilder::builder(): the caller configures with one
\* builder at a time and calls nothing else until it has built
Builder ==
    /\ builder = None
    /\ builder' = Some(SpanBuilder_builder)
    /\ last' = [op |-> "builder"]
    /\ UNCHANGED <<self, steps, registry, threads>>

\* builder.date_format(pattern)
BuilderDateFormat ==
    /\ builder.some
    /\ \E pattern \in Inputs.Patterns.Date :
         /\ builder' = Some([builder.v EXCEPT !.date_format = Some(pattern)])
         /\ last' = [op |-> "date_format", pattern |-> pattern]
    /\ UNCHANGED <<self, steps, registry, threads>>

\* builder.time_format(pattern)
BuilderTimeFormat ==
    /\ builder.some
    /\ \E pattern \in Inputs.Patterns.Time :
         /\ builder' = Some([builder.v EXCEPT !.time_format = Some(pattern)])
         /\ last' = [op |-> "time_format", pattern |-> pattern]
    /\ UNCHANGED <<self, steps, registry, threads>>

\* builder.datetime_format(pattern)
BuilderDateTimeFormat ==
    /\ builder.some
    /\ \E pattern \in Inputs.Patterns.DateTime :
         /\ builder' =
                Some([builder.v EXCEPT !.datetime_format = Some(pattern)])
         /\ last' = [op |-> "datetime_format", pattern |-> pattern]
    /\ UNCHANGED <<self, steps, registry, threads>>

\* builder.build(); the builder is dropped
Build ==
    /\ builder.some
    /\ registry' = SpanBuilder_build(builder.v, registry)
    /\ last' = [op |-> "build", recv |-> builder.v, before |-> registry]
    /\ builder' = None
    /\ UNCHANGED <<self, steps, threads>>

\* value = Date::from(date), Time::new(h, m, s)?, DateTime::new(y, m, d)?
Constructed(res) ==
    /\ builder = None
    /\ last' = [op |-> "new", registry |-> registry, res |-> res]
    /\ self' = IF res.outcome = "Ok" THEN res.v ELSE self
    /\ UNCHANGED <<steps, registry, builder, threads>>

RegistryDateFrom ==
    \E date \in {Ymd(2023, 1, 1), Ymd(2024, 2, 29)} :
       Constructed(Ok(Date_from(date, registry)))

RegistryTimeNew ==
    \E h \in {12, 24} : Constructed(Time_new(h, 0, 0, registry))

RegistryDateTimeNew ==
    \E day \in {1, 32} : Constructed(DateTime_new(2023, 1, day, registry))

\* value = value.with_time(hour, minute, second)?
RegistryDateTimeWithTime ==
    /\ builder = None /\ self.kind = "DateTime"
    /\ \E h \in {12, 24} :
         /\ last' = [op |-> "with_time", recv |-> self,
                     res |-> DateTime_with_time(self, h, 0, 0)]
         /\ self' = IF last'.res.outcome = "Ok" THEN last'.res.v ELSE self
    /\ UNCHANGED <<steps, registry, builder, threads>>

\* value = value.format(pattern)
Format ==
    /\ builder = None
    /\ \E pattern \in Inputs.Patterns[self.kind] :
         /\ self' = format(self, pattern)
         /\ last' = [op |-> "format", recv |-> self, pattern |-> pattern]
    /\ UNCHANGED <<steps, registry, builder, threads>>

\* value = DateTime::from(value), Date::from(value), Time::from(value);
\* `back` is what the result converts back to
Converted ==
    /\ builder = None
    /\ \/ /\ self.kind # "DateTime"
          /\ self' = DateTime_from(self, registry)
          /\ last' = [op |-> "from", recv |-> self, res |-> Ok(self'),
                      back |-> from_datetime(self', self.kind, registry)]
       \/ /\ self.kind = "DateTime"
          /\ \E kind \in {"Date", "Time"} :
               /\ self' = from_datetime(self, kind, registry)
               /\ last' = [op |-> "from", recv |-> self, res |-> Ok(self'),
                           back |-> DateTime_from(self', registry)]
    /\ UNCHANGED <<steps, registry, builder, threads>>

\* value = value.next(unit)?
RegistryNext ==
    /\ builder = None /\ steps < MaxSteps
    /\ IF self.kind = "Date" THEN Rebound("Day", Date_update(self, "Day", 1, TRUE))
       ELSE IF self.kind = "Time" THEN Rebound("Hour", Time_update(self, "Hour", 1))
       ELSE Rebound("Day", DateTime_update(self, "Day", 1, TRUE))

\* value.clear_time()
ClearTime ==
    /\ builder = None /\ self.kind = "DateTime"
    /\ last' = [op |-> "clear_time", recv |-> self,
                res |-> Ok(DateTime_clear_time(self, registry))]
    /\ UNCHANGED <<self, steps, registry, builder, threads>>

\* serde_json::to_string(&value) of a Date or a DateTime
Serialized ==
    /\ builder = None /\ self.kind # "Time"
    /\ last' = [op |-> "serialize", recv |-> self,
                res |-> serialize(self, registry)]
    /\ UNCHANGED <<self, steps, registry, builder, threads>>

\* serde_json::from_str(&text) of what to_string wrote for the value, now
\* or when the statics were `written`
Deserialized ==
    /\ builder = None /\ self.kind # "Time"
    /\ \E written \in {registry, BaseFormats,
                        [BaseFormats EXCEPT !.date = SlashDateFormat]} :
         /\ serialize(self, written).outcome = "Ok"
         /\ last' = [op |-> "deserialize", recv |-> self, written |-> written,
                     text |-> serialize(self, written).v,
                     res |-> deserialize(serialize(self, written).v,
                                         self.kind, registry)]
    /\ UNCHANGED <<self, steps, registry, builder, threads>>

\* value.to_string()
ToStringCalled ==
    /\ builder = None
    /\ last' = [op |-> "to_string", recv |-> self,
                res |-> to_string(self, registry)]
    /\ UNCHANGED <<self, steps, registry, builder, threads>>

\* BASE_DATETIME_FORMAT.get()
GetDateTimeDefault ==
    /\ builder = None
    /\ last' = [op |-> "get", res |-> BASE_DATETIME_FORMAT_get(registry)]
    /\ UNCHANGED <<self, steps, registry, builder, threads>>

NextRegistry ==
    \/ Builder
    \/ BuilderDateFormat
    \/ BuilderTimeFormat
    \/ BuilderDateTimeFormat
    \/ Build
    \/ RegistryDateFrom
    \/ RegistryTimeNew
    \/ RegistryDateTimeNew
    \/ RegistryDateTimeWithTime
    \/ Format
    \/ Converted
    \/ RegistryNext
    \/ ClearTime
    \/ Serialized
    \/ Deserialized
    \/ ToStringCalled
    \/ GetDateTimeDefault

SpecRegistry == InitRegistry /\ [][NextRegistry]_vars

-----------------------------------------------------------------------------
(* The statics under their locks: threads that build a DateTime from a     *)
(* string (TryFrom<&str>, two reads of BASE_DATETIME_FORMAT) and threads    *)
(* that run SpanBuilder::build().  threads.calls[t] is the thread's call,   *)
(* its position and its locals; threads.policy is whether the RwLock of     *)
(* the build lets a reader in while a writer waits.  A thread holds the     *)
(* locks its position names.                                                *)

MaxThreads == 2

\* RwLock::read() returns: no writer holds the slot and, when writers are
\* preferred, none waits for it
RwLock_read_unguarded(slot) == TRUE

RwLock_read(slot) ==
    \A t \in 1 .. MaxThreads :
        threads.calls[t].op = "build"
        => /\ threads.calls[t].pc # <<"locked", slot>>
           /\ threads.policy = "writers" => threads.calls[t].pc # <<"write", slot>>

\* RwLock::write() returns: no thread holds the slot
RwLock_write(slot) ==
    \A t \in 1 .. MaxThreads :
        IF threads.calls[t].op = "build" THEN threads.calls[t].pc # <<"locked", slot>>
        ELSE /\ threads.calls[t].pc # <<"read", slot>>
             /\ slot = "datetime"
                => threads.calls[t].pc[1] \notin {"derive", "read", "return"}

InitThreads ==
    /\ self = DateTime(NaiveDateTime(Ymd(2023, 1, 1), Hms(12, 0, 0)),
                       DateTimeFormat)
    /\ last = [op |-> "new", res |-> Ok(self)]
    /\ steps = 0
    /\ registry = BaseFormats
    /\ builder = None
    /\ \E policy \in {"readers", "writers"} :
         \E calls \in [1 .. MaxThreads ->
                        {[op |-> "try_from", pc |-> <<"get", "datetime">>,
                          text |-> <<"2023", "-", "01", "-", "01", " ",
                                     "12", ":", "00", ":", "00">>,
                          date |-> <<>>, time |-> <<>>, got |-> <<>>,
                          parsed |-> None, res |-> None]}
                        \cup {[op |-> "build", pc |-> <<"write", "date">>,
                               b |-> b]
                              : b \in {[SpanBuilder_builder
                                          EXCEPT !.date_format =
                                                     Some(SlashDateFormat)],
                                       [SpanBuilder_builder
                                          EXCEPT !.datetime_format =
                                                     Some(DateTimeFormat)]}}] :
            threads = [policy |-> policy, calls |-> calls]

\* BASE_DATETIME_FORMAT.read(), then under its guard BASE_DATE_FORMAT.read()
\* and BASE_TIME_FORMAT.read(): the thread takes the shared lock it waits for
Read(t) ==
    LET call == threads.calls[t]
        slot == call.pc[2]
    IN  /\ call.op = "try_from" /\ call.pc[1] \in {"get", "derive"}
        /\ RwLock_read(slot)
        /\ threads' =
             [threads EXCEPT !.calls[t] =
                IF slot = "date"
                THEN [call EXCEPT !.date = registry.date,
                                  !.pc = <<"read", "date">>]
                ELSE IF slot = "time"
                THEN [call EXCEPT !.time = registry.time,
                                  !.pc = <<"read", "time">>]
                ELSE IF registry.datetime.some
                THEN [call EXCEPT !.got = registry.datetime.v,
                                  !.pc = <<"return", "datetime">>]
                ELSE [call EXCEPT !.pc = <<"derive", "date">>]]
        /\ UNCHANGED <<self, last, steps, registry, builder>>

\* a guard is dropped: that of the Date slot, that of the Time slot (the
\* two patterns are then joined by format!), and at the end of get() that
\* of the DateTime slot; try_from parses with what the first get() returned
\* and stores what the second returned
DropRead(t) ==
    LET call == threads.calls[t]
        parsed == parse_from_str(call.text, call.got, "DateTime")
    IN  /\ call.op = "try_from" /\ call.pc[1] \in {"read", "return"}
        /\ threads' =
             [threads EXCEPT !.calls[t] =
                IF call.pc = <<"read", "date">>
                THEN [call EXCEPT !.pc = <<"derive", "time">>]
                ELSE IF call.pc = <<"read", "time">>
                THEN [call EXCEPT !.got = call.date \o <<" ">> \o call.time,
                                  !.date = <<>>, !.time = <<>>,
                                  !.pc = <<"return", "datetime">>]
                ELSE IF call.parsed.some
                THEN [call EXCEPT !.res = Ok(DateTime(call.parsed.v, call.got)),
                                  !.pc = <<"done", "">>]
                ELSE IF parsed.some
                THEN [call EXCEPT !.parsed = parsed, !.got = <<>>,
                                  !.pc = <<"get", "datetime">>]
                ELSE [call EXCEPT
                        !.res = Err(err_ctx([variant |-> "ParseFromStr"],
                                            "DateTime")),
                        !.pc = <<"done", "">>]]
        /\ UNCHANGED <<self, last, steps, registry, builder>>

\* *BASE_DATE_FORMAT.write().unwrap() = .., then the Time slot, then the
\* DateTime slot: the thread takes the exclusive lock and assigns
Write(t) ==
    LET call == threads.calls[t]
        slot == call.pc[2]
    IN  /\ call.op = "build" /\ call.pc[1] = "write"
        /\ RwLock_write(slot)
        /\ registry' =
             [registry EXCEPT
                ![slot] = SpanBuilder_build(call.b, registry)[slot]]
        /\ threads' = [threads EXCEPT !.calls[t].pc = <<"locked", slot>>]
        /\ UNCHANGED <<self, last, steps, builder>>

\* the write guard is dropped at the end of the statement
DropWrite(t) ==
    LET call == threads.calls[t]
    IN  /\ call.op = "build" /\ call.pc[1] = "locked"
        /\ threads' =
             [threads EXCEPT
                !.calls[t].pc =
                    IF call.pc[2] = "date" THEN <<"write", "time">>
                    ELSE IF call.pc[2] = "time" THEN <<"write", "datetime">>
                    ELSE <<"done", "">>]
        /\ UNCHANGED <<self, last, steps, registry, builder>>

NextThreads ==
    \E t \in 1 .. MaxThreads :
       \/ Read(t)
       \/ DropRead(t)
       \/ Write(t)
       \/ DropWrite(t)

\* while some thread can take a step, one is scheduled
SpecThreads == InitThreads /\ [][NextThreads]_vars /\ WF_vars(NextThreads)

-----------------------------------------------------------------------------
(* The proleptic Gregorian calendar, stated without the day-count          *)
(* algorithm of the implementation: what the properties compare against.   *)

RefLeap(y) == (y % 4 = 0 /\ y % 100 # 0) \/ y % 400 = 0

RefMonthLength(y, m) ==
    IF m = 2 THEN (IF RefLeap(y) THEN 29 ELSE 28)
    ELSE <<31, 28, 31, 30, 31, 30, 31, 31, 30, 31, 30, 31>>[m]

RefDaysBeforeMonth(y, m) ==
    <<0, 31, 59, 90, 120, 151, 181, 212, 243, 273, 304, 334>>[m]
        + (IF m > 2 /\ RefLeap(y) THEN 1 ELSE 0)

\* the number of the day, counting every day of every year in order
RefDayNumber(date) ==
    365 * date.year
        + (date.year - 1) \div 4 - (date.year - 1) \div 100
        + (date.year - 1) \div 400
        + RefDaysBeforeMonth(date.year, date.month) + date.day

RefValidDate(date) ==
    /\ date.year \in MinYear..MaxYear
    /\ date.month \in 1..12
    /\ date.day \in 1..RefMonthLength(date.year, date.month)

RefMonthIndex(date) == date.year * 12 + date.month - 1

\* the month n months away holds a representable date
RefMonthShiftInRange(date, n) ==
    /\ n >= MinYear * 12 - RefMonthIndex(date)
    /\ n <= MaxYear * 12 + 11 - RefMonthIndex(date)

\* the same day of the month n months away, or that month's last day
RefShiftedMonth(date, n) ==
    LET t == RefMonthIndex(date) + n
        y == t \div 12
        m == (t % 12) + 1
    IN  NaiveDate(y, m, IF date.day < RefMonthLength(y, m) THEN date.day
                        ELSE RefMonthLength(y, m))

\* the day n days away is a representable date
RefDayShiftInRange(date, n) ==
    /\ n >= RefDayNumber(MinDate) - RefDayNumber(date)
    /\ n <= RefDayNumber(MaxDate) - RefDayNumber(date)

\* the last call was update, directly or through next
IsUpdateCall == last.op \in {"update", "next"}

IsDated == last.recv.kind \in {"Date", "DateTime"}

RecvDate ==
    IF last.recv.kind = "Date" THEN last.recv.date ELSE last.recv.datetime.date

ResDate ==
    IF last.res.v.kind = "Date" THEN last.res.v.date
    ELSE last.res.v.datetime.date

-----------------------------------------------------------------------------
\* C1: a Month update of a Date or DateTime whose target month is in range
\* succeeds and gives the year and month n months away, with the day kept
\* or, when the target month is shorter, set to that month's last day.
C1_MonthClamp ==
    (/\ IsUpdateCall /\ IsDated /\ last.unit = "Month"
     /\ RefMonthShiftInRange(RecvDate, last.value))
    => /\ last.res.outcome = "Ok"
       /\ last.res.v.kind = last.recv.kind
       /\ ResDate = RefShiftedMonth(RecvDate, last.value)

\* 2023-01-31 plus one month is 2023-02-28
C1_Witness ==
    /\ last.op = "update" /\ last.recv.kind = "Date"
    /\ last.unit = "Month" /\ last.value = 1
    /\ RecvDate = NaiveDate(2023, 1, 31)
    /\ last.res.outcome = "Ok" /\ ResDate = NaiveDate(2023, 2, 28)

\* C2: a Day or Month update of a Date or DateTime whose result is out of
\* range does not panic: it returns an error tagged with the kind that wraps
\* InvalidUpdate, whose text names the delta, the unit and the rendered value.
C2_DayMonthOverflowIsError ==
    (/\ IsUpdateCall /\ IsDated
     /\ \/ last.unit = "Month" /\ ~RefMonthShiftInRange(RecvDate, last.value)
        \/ last.unit = "Day" /\ ~RefDayShiftInRange(RecvDate, last.value))
    => /\ last.res.outcome = "Err"
       /\ last.res.e.variant = last.recv.kind
       /\ last.res.e.inner.variant = "InvalidUpdate"
       /\ last.res.e.inner.text =
            "Cannot Add/Remove " \o ToString(last.value) \o " " \o last.unit
                \o " to/from " \o Display(last.recv)

\* the year n years away is a representable year
RefYearShiftInRange(date, n) ==
    /\ n >= MinYear - date.year
    /\ n <= MaxYear - date.year

\* C3: a Year update of a Date or DateTime (one whose pattern renders) never
\* panics and never wraps, whatever the i32 delta: it returns the value
\* exactly 12 * delta months away, the day clamped, or an InvalidUpdate error.
C3_YearUpdateNeverPanicsNorWraps ==
    (/\ IsUpdateCall /\ IsDated /\ last.unit = "Year"
     /\ ~DisplayFails(last.recv))
    => /\ last.res.outcome # "Panic"
       /\ last.res.outcome = "Ok" =>
            /\ RefYearShiftInRange(RecvDate, last.value)
            /\ ResDate = RefShiftedMonth(RecvDate, 12 * last.value)
       /\ last.res.outcome = "Err" =>
            last.res.e.inner.variant = "InvalidUpdate"

\* C4: a Day update of a Date or DateTime whose result is in range gives
\* the calendar date exactly n days away; next(Day) on February 28 gives
\* February 29 exactly in a leap year and March 1 otherwise.
C4_DayRollOver ==
    /\ (/\ IsUpdateCall /\ IsDated /\ last.unit = "Day"
        /\ RefDayShiftInRange(RecvDate, last.value))
       => /\ last.res.outcome = "Ok"
          /\ last.res.v.kind = last.recv.kind
          /\ RefValidDate(ResDate)
          /\ RefDayNumber(ResDate) = RefDayNumber(RecvDate) + last.value
    /\ (/\ last.op = "next" /\ IsDated /\ last.unit = "Day"
        /\ RecvDate.month = 2 /\ RecvDate.day = 28)
       => /\ last.res.outcome = "Ok"
          /\ ResDate = IF RefLeap(RecvDate.year)
                       THEN NaiveDate(RecvDate.year, 2, 29)
                       ELSE NaiveDate(RecvDate.year, 3, 1)

\* next(Day) on 1900-02-28, a year divisible by 100 and not by 400, gives
\* 1900-03-01
C4_Witness ==
    /\ last.op = "next" /\ last.recv.kind = "Date" /\ last.unit = "Day"
    /\ RecvDate = NaiveDate(1900, 2, 28)
    /\ last.res.outcome = "Ok" /\ ResDate = NaiveDate(1900, 3, 1)

\* delta * unit_seconds modulo 86400
RefUnitSeconds(unit, value) ==
    IF unit = "Hour" THEN (value % 24) * 3600
    ELSE IF unit = "Minute" THEN (value % 1440) * 60
    ELSE value % 86400

\* the whole days in delta * unit_seconds, rounded down
RefUnitDays(unit, value) ==
    IF unit = "Hour" THEN value \div 24
    ELSE IF unit = "Minute" THEN value \div 1440
    ELSE value \div 86400

\* C5: an update of a Time always succeeds and gives the time whose second
\* of the day is (second of the day + delta * unit_seconds) mod 86400, with
\* the pattern kept.
C5_TimeWrapsAround ==
    (IsUpdateCall /\ last.recv.kind = "Time")
    => /\ last.res.outcome = "Ok"
       /\ last.res.v.kind = "Time"
       /\ last.res.v.format = last.recv.format
       /\ last.res.v.time =
            (last.recv.time + RefUnitSeconds(last.unit, last.value)) % 86400

\* 00:00:00 plus i32::MIN hours is 16:00:00
C5_Witness ==
    /\ last.op = "update" /\ last.recv.kind = "Time"
    /\ last.unit = "Hour" /\ last.value = I32Min
    /\ last.recv.time = 0
    /\ last.res.outcome = "Ok" /\ Display(last.res.v) = "16:00:00"

\* the days that delta * unit_seconds moves the date of a datetime by
RefCarriedDays(dt, unit, value) ==
    RefUnitDays(unit, value)
        + (dt.time + RefUnitSeconds(unit, value)) \div 86400

\* C6: an Hour, Minute or Second update of a DateTime whose result is in
\* range gives the datetime delta * unit_seconds later, the date moving
\* with the days carried; a Year, Month or Day update that succeeds leaves
\* the time of day as it was.
C6_ClockCarriesIntoDate ==
    /\ (/\ IsUpdateCall /\ last.recv.kind = "DateTime"
        /\ last.unit \in Units.Time
        /\ RefDayShiftInRange(RecvDate,
               RefCarriedDays(last.recv.datetime, last.unit, last.value)))
       => /\ last.res.outcome = "Ok"
          /\ last.res.v.kind = "DateTime"
          /\ last.res.v.datetime.time =
               (last.recv.datetime.time
                    + RefUnitSeconds(last.unit, last.value)) % 86400
          /\ RefValidDate(ResDate)
          /\ RefDayNumber(ResDate) = RefDayNumber(RecvDate)
               + RefCarriedDays(last.recv.datetime, last.unit, last.value)
    /\ (/\ IsUpdateCall /\ last.recv.kind = "DateTime"
        /\ last.unit \in Units.Date /\ last.res.outcome = "Ok")
       => last.res.v.datetime.time = last.recv.datetime.time

\* 2023-10-09 23:59:34 plus one hour is 2023-10-10 00:59:34
C6_Witness ==
    /\ last.op = "update" /\ last.recv.kind = "DateTime"
    /\ last.unit = "Hour" /\ last.value = 1
    /\ Display(last.recv) = "2023-10-09 23:59:34"
    /\ last.res.outcome = "Ok"
    /\ Display(last.res.v) = "2023-10-10 00:59:34"

\* C7: an Hour, Minute or Second update of a DateTime never panics, in any
\* year and for any i32 delta: it returns the shifted DateTime when that is
\* representable and a DateTime-tagged InvalidUpdate error otherwise.
C7_ClockOverflowIsError ==
    (IsUpdateCall /\ last.recv.kind = "DateTime" /\ last.unit \in Units.Time)
    => /\ last.res.outcome # "Panic"
       /\ IF RefDayShiftInRange(RecvDate,
                 RefCarriedDays(last.recv.datetime, last.unit, last.value))
          THEN last.res.outcome = "Ok"
          ELSE /\ last.res.outcome = "Err"
               /\ last.res.e.variant = "DateTime"
               /\ last.res.e.inner.variant = "InvalidUpdate"

\* the count a unit_elapsed call returned
ElapsedCount == last.res.v

\* the same call with receiver and argument exchanged
SwappedElapsed ==
    IF last.recv.kind = "Time"
    THEN Time_unit_elapsed(last.rhs, last.recv, last.unit)
    ELSE IF last.recv.kind = "DateTime"
    THEN DateTime_unit_elapsed(last.rhs, last.recv, last.unit)
    ELSE Date_unit_elapsed(last.rhs, last.recv, last.unit, <<>>, <<>>)

\* C8: unit_elapsed of two values of one kind is non-negative and the same
\* with the two values exchanged (for a Date, in the units that read no
\* clock).
C8_ElapsedDiscardsDirection ==
    (/\ last.op = "unit_elapsed" /\ last.res.outcome = "Ok"
     /\ (last.recv.kind = "Date" => last.unit \in {"Year", "Month"}))
    => /\ ~I64IsNeg(ElapsedCount)
       /\ SwappedElapsed = last.res

\* D = |unix_seconds(a) - unix_seconds(b)| of two datetimes
RefSecondsBetween(a, b) ==
    I64Abs(I64(RefDayNumber(a.date) - RefDayNumber(b.date), a.time - b.time))

\* floor(D / 60), floor(D / 3600), floor(D / 86400) and D itself
RefUnitCount(unit, d) ==
    IF unit = "Day" THEN I64OfInt(d.hi)
    ELSE IF unit = "Hour" THEN I64DivNat(d, 3600)
    ELSE IF unit = "Minute" THEN I64DivNat(d, 60)
    ELSE d

\* C9: the count of Days, Hours, Minutes or Seconds between two DateTimes,
\* from unit_elapsed and from unit_in_between, is floor(D / unit_seconds)
\* for the D seconds between them, also for dates after 2038.
C9_DateTimeUnitCounts ==
    (/\ last.op \in {"unit_elapsed", "unit_in_between"}
     /\ last.recv.kind = "DateTime"
     /\ last.unit \in {"Day", "Hour", "Minute", "Second"})
    => /\ last.res.outcome = "Ok"
       /\ (IF last.op = "unit_in_between" THEN I64OfInt(last.res.v)
           ELSE last.res.v)
            = RefUnitCount(last.unit,
                  RefSecondsBetween(last.recv.datetime, last.rhs.datetime))

\* the difference of the year fields, or of year * 12 + month
RefFieldDifference(a, b, unit) ==
    IF unit = "Year" THEN a.year - b.year
    ELSE (a.year * 12 + a.month) - (b.year * 12 + b.month)

\* C10: unit_elapsed with Year or Month is the difference of the calendar
\* fields alone, the receiver's less the argument's for a Date and its
\* magnitude for a DateTime: the Month count is year * 12 + month of one
\* less that of the other, whatever the days and the times of day.
C10_CalendarFieldDifference ==
    (/\ last.op = "unit_elapsed" /\ IsDated
     /\ last.unit \in {"Year", "Month"})
    => /\ last.res.outcome = "Ok"
       /\ last.res.v =
            IF last.recv.kind = "Date"
            THEN I64OfInt(RefFieldDifference(last.recv.date, last.rhs.date,
                                             last.unit))
            ELSE I64OfInt(Abs(RefFieldDifference(last.recv.datetime.date,
                                  last.rhs.datetime.date, last.unit)))

\* 2023-10-09 against 2020-02-08 is 44 months
C10_Witness ==
    /\ last.op = "unit_elapsed" /\ last.recv.kind = "Date"
    /\ last.unit = "Month"
    /\ last.recv.date = NaiveDate(2023, 10, 9)
    /\ last.rhs.date = NaiveDate(2020, 2, 8)
    /\ last.res = Ok(I64OfInt(44))

\* the two dates at 00:00:00, as DateTimes
RefAtMidnight(date) == DateTime(NaiveDateTime(date, 0), DateTimeFormat)

\* C11: unit_elapsed with Day of two Dates returns the number of whole
\* calendar days between them: its magnitude is the difference of the two
\* day numbers (60 for 2024-03-12 against 2024-01-12), the count that
\* DateTime::unit_elapsed gives for the two dates at midnight.
C11_DateDayCount ==
    (/\ last.op = "unit_elapsed" /\ last.recv.kind = "Date"
     /\ last.unit = "Day")
    => /\ last.res.outcome = "Ok"
       /\ I64Abs(last.res.v)
            = I64OfInt(Abs(RefDayNumber(last.recv.date)
                           - RefDayNumber(last.rhs.date)))
       /\ Ok(I64Abs(last.res.v))
            = DateTime_unit_elapsed(RefAtMidnight(last.recv.date),
                                    RefAtMidnight(last.rhs.date), "Day")

\* the instant of a value, in seconds: a Date is its midnight, a Time is a
\* time of 1970-01-01
RefInstant(v) ==
    IF v.kind = "Date" THEN I64(RefDayNumber(v.date), 0)
    ELSE IF v.kind = "Time" THEN I64(0, v.time)
    ELSE I64(RefDayNumber(v.datetime.date), v.datetime.time)

\* elapsed with receiver and argument exchanged
SwappedDuration ==
    IF last.recv.kind = "Date" THEN Date_elapsed(last.rhs, last.recv)
    ELSE IF last.recv.kind = "Time" THEN Time_elapsed(last.rhs, last.recv)
    ELSE DateTime_elapsed(last.rhs, last.recv)

\* C12: elapsed(a, b) is a's instant less b's instant in whole seconds, with
\* its sign: it is the negation of elapsed(b, a), zero for a against itself,
\* and positive exactly when a is later than b.
C12_ElapsedIsSigned ==
    last.op = "elapsed"
    => /\ last.res = Ok(I64Sub(RefInstant(last.recv), RefInstant(last.rhs)))
       /\ last.res.v = I64Neg(SwappedDuration)
       /\ (RefInstant(last.recv) = RefInstant(last.rhs)
            => last.res.v = I64OfInt(0))
       /\ (I64Leq(I64OfInt(1), last.res.v)
            <=> ~I64Leq(RefInstant(last.recv), RefInstant(last.rhs)))

\* 2023-10-09 01:01:01 less 2023-10-08 00:00:00 is 1 day 1 hour 1 minute
\* 1 second
C12_Witness ==
    /\ last.op = "elapsed" /\ last.recv.kind = "DateTime"
    /\ last.recv.datetime = NaiveDateTime(NaiveDate(2023, 10, 9), 3661)
    /\ last.rhs.datetime = NaiveDateTime(NaiveDate(2023, 10, 8), 0)
    /\ last.res = Ok(I64(1, 3600 + 60 + 1))

-----------------------------------------------------------------------------
(* Timestamp conversions *)

\* the wrapped count reduced to whole seconds: thousandths dropped once for
\* milliseconds, twice for microseconds, three times for nanoseconds
RefWholeSeconds(wrapper, ts) ==
    I64DivThousands(ts, IF wrapper = "TimestampMilli" THEN 1
                        ELSE IF wrapper = "TimestampMicro" THEN 2 ELSE 3)

\* 1970-01-01 00:00:00
RefEpoch == I64(RefDayNumber(Ymd(1970, 1, 1)), 0)

\* the second count as days and seconds of the day from the epoch; None when
\* it lies outside MinDate 00:00:00 .. MaxDate 23:59:59
RefSecondCount(secs) ==
    LET magnitude == SecondsOfLimbs(secs.limbs, 0, 0)
        count == IF secs.neg THEN I64Neg(magnitude.v) ELSE magnitude.v
    IN  IF /\ magnitude.some
           /\ I64Leq(I64Sub(I64(RefDayNumber(MinDate), 0), RefEpoch), count)
           /\ I64Leq(count, I64Sub(I64(RefDayNumber(MaxDate), SecsPerDay - 1),
                                   RefEpoch))
        THEN Some(count)
        ELSE None

\* C13: converting a timestamp wrapper to DateTime divides the wrapped count,
\* truncating, by 1000 for TimestampMilli, by 1_000_000 for TimestampMicro and
\* by 1_000_000_000 for TimestampNano; the result is the UTC date and time
\* that many seconds after 1970-01-01 00:00:00, or ParseFromTimestamp when the
\* second count is out of the representable range.
C13_TimestampNormalised ==
    last.op = "try_from"
    => LET count == RefSecondCount(RefWholeSeconds(last.wrapper, last.ts))
       IN  IF count.some
           THEN /\ last.res.outcome = "Ok"
                /\ RefValidDate(last.res.v.datetime.date)
                /\ I64Sub(RefInstant(last.res.v), RefEpoch) = count.v
           ELSE /\ last.res.outcome = "Err"
                /\ last.res.e.variant = "ParseFromTimestamp"

-----------------------------------------------------------------------------
(* Error tagging *)

KindTags == {"Date", "Time", "DateTime"}

\* an error record is a kind's tag over one cause that carries no tag
TaggedOnce(e) ==
    /\ e.variant \in KindTags
    /\ e.inner.variant \notin KindTags

\* C14: every error returned by an operation or conversion of a value kind
\* (construction, update, clear_unit, with_time, unit_elapsed, the
\* timestamp-to-DateTime conversion) is the kind's outer tag (Date, Time or
\* DateTime) wrapping exactly one untagged inner cause: none is a bare
\* untagged cause, none is tagged twice.
C14_ErrorsTaggedOnce ==
    last.res.outcome = "Err"
    => /\ TaggedOnce(last.res.e)
       /\ last.op \in {"update", "next", "unit_elapsed", "unit_in_between",
                       "with_time", "clear_unit"}
          => last.res.e.variant = last.recv.kind
       /\ last.op = "Time::new" => last.res.e.variant = "Time"
       /\ last.op \in {"DateTime::new", "try_from"}
          => last.res.e.variant = "DateTime"

-----------------------------------------------------------------------------
(* Atomic update *)

\* a value whose fields name a date and a time of day
RefValidValue(v) ==
    IF v.kind = "Date" THEN RefValidDate(v.date)
    ELSE IF v.kind = "Time" THEN v.time \in 0 .. SecsPerDay - 1
    ELSE RefValidDate(v.datetime.date) /\ v.datetime.time \in 0 .. SecsPerDay - 1

\* what the return-new-value update of the same kind returns for the call
RefReturned ==
    IF last.recv.kind = "Date"
    THEN Date_update(last.recv, last.unit, last.value, last.overflow_checks)
    ELSE DateTime_update(last.recv, last.unit, last.value,
                         last.overflow_checks)

-----------------------------------------------------------------------------
(* clear_unit *)

\* the calendar and clock fields of a value, by unit
RefField(v, unit) ==
    LET date == IF v.kind = "DateTime" THEN v.datetime.date ELSE v.date
        time == IF v.kind = "DateTime" THEN v.datetime.time ELSE v.time
    IN  CASE unit = "Year" -> date.year
          [] unit = "Month" -> date.month
          [] unit = "Day" -> date.day
          [] unit = "Hour" -> time \div 3600
          [] unit = "Minute" -> (time % 3600) \div 60
          [] unit = "Second" -> time % 60

RefUnitsOf(v) == IF v.kind = "Time" THEN Units.Time ELSE Units.DateTime

RefEpochField(unit) ==
    CASE unit = "Year" -> 1970
      [] unit \in {"Month", "Day"} -> 1
      [] OTHER -> 0

\* C16: whenever clear_unit(v, unit) succeeds, the named field of the result
\* equals its epoch value (year 1970, month 1, day 1, hour 0, minute 0,
\* second 0) and every other field and the display pattern equal those of v.
C16_ClearUnitResetsOneField ==
    (last.op = "clear_unit" /\ last.res.outcome = "Ok")
    => /\ last.res.v.kind = last.recv.kind
       /\ last.res.v.format = last.recv.format
       /\ RefField(last.res.v, last.unit) = RefEpochField(last.unit)
       /\ \A unit \in RefUnitsOf(last.recv) \ {last.unit} :
            RefField(last.res.v, unit) = RefField(last.recv, unit)
       /\ self = last.recv

\* 2023-05-17 09:05:12 with Month cleared is 2023-01-17 09:05:12
C16_Witness ==
    /\ last.op = "clear_unit"
    /\ last.recv = DateTime(NaiveDateTime(Ymd(2023, 5, 17), Hms(9, 5, 12)),
                            DateTimeFormat)
    /\ last.unit = "Month"
    /\ last.res = Ok(DateTime(NaiveDateTime(Ymd(2023, 1, 17), Hms(9, 5, 12)),
                              DateTimeFormat))

\* C17: for every valid DateTime or Time value (leap days and month ends
\* included) and every unit of its kind, clear_unit returns Ok; the ClearUnit
\* error is unreachable.
C17_ClearUnitAlwaysSucceeds ==
    last.op = "clear_unit" => last.res.outcome = "Ok"

-----------------------------------------------------------------------------
(* The registry of default patterns *)

\* the calls that construct no value and set no pattern of a value
RefRegistryCalls ==
    {"builder", "date_format", "time_format", "datetime_format", "build",
     "to_string", "get"}

RefSpecified(b) ==
    [date |-> IF b.date_format = None THEN DateFormat ELSE b.date_format.v,
     time |-> IF b.time_format = None THEN TimeFormat ELSE b.time_format.v,
     datetime |-> b.datetime_format]

\* C19: every build() leaves in each of the three slots what its builder
\* specified, the given pattern if the builder set the slot and otherwise the
\* canonical default (%Y-%m-%d for Date, %H:%M:%S for Time, unset for
\* DateTime), whatever the slot held; no other call writes a slot.  So after
\* any sequence of build() calls the slots hold what the most recent one
\* specified.
C19_RegistryResetOnBuild ==
    [][ /\ last'.op = "build" => registry' = RefSpecified(last'.recv)
        /\ last'.op # "build" => registry' = registry ]_vars

\* a build() that does not set the Date slot, after one that set it
C19_Witness ==
    /\ last.op = "build"
    /\ last.before.date = SlashDateFormat
    /\ last.recv.date_format = None
    /\ last.recv.time_format # None
    /\ registry.date = DateFormat

\* C20: in every registry state, a read of the DateTime default returns the
\* DateTime slot's pattern when that slot is set, and otherwise the current
\* Date default, one space, and the current Time default; a DateTime
\* constructed from fields stores what that read returns.
C20_DerivedDateTimeDefault ==
    LET derived == IF registry.datetime # None THEN registry.datetime.v
                   ELSE registry.date \o <<" ">> \o registry.time
    IN  /\ last.op = "get" => last.res = derived
        /\ (/\ last.op = "new" /\ last.res.outcome = "Ok"
            /\ last.res.v.kind = "DateTime")
           => last.res.v.format = derived

\* after a build() that set only the Date and Time slots, a DateTime of
\* 2023-01-01 12:00:00 renders as 01/01/2023 12_00_00
C20_Witness ==
    /\ last.op = "with_time"
    /\ registry.date = SlashDateFormat
    /\ registry.time = <<"%H", "_", "%M", "_", "%S">>
    /\ registry.datetime = None
    /\ last.res.outcome = "Ok"
    /\ last.res.v.format = <<"%d", "/", "%m", "/", "%Y", " ",
                             "%H", "_", "%M", "_", "%S">>
    /\ Display(last.res.v) = "01/01/2023 12_00_00"

-----------------------------------------------------------------------------
(* Conversions between the kinds *)

\* C21: converting a Date d to DateTime gives date d at 00:00:00, and
\* converting that back to Date gives date d again; converting a Time t to
\* DateTime gives 1970-01-01 at time t, and converting back to Time gives t
\* again; narrowing a DateTime keeps exactly its date part (to Date) or its
\* time part (to Time).
C21_ConversionIdentity ==
    last.op = "from"
    => /\ last.recv.kind = "Date"
          => /\ last.res.v.kind = "DateTime"
             /\ last.res.v.datetime = [date |-> last.recv.date, time |-> 0]
             /\ last.back.kind = "Date"
             /\ last.back.date = last.recv.date
       /\ last.recv.kind = "Time"
          => /\ last.res.v.kind = "DateTime"
             /\ last.res.v.datetime =
                   [date |-> [year |-> 1970, month |-> 1, day |-> 1],
                    time |-> last.recv.time]
             /\ last.back.kind = "Time"
             /\ last.back.time = last.recv.time
       /\ (last.recv.kind = "DateTime" /\ last.res.v.kind = "Date")
          => last.res.v.date = last.recv.datetime.date
       /\ (last.recv.kind = "DateTime" /\ last.res.v.kind = "Time")
          => last.res.v.time = last.recv.datetime.time
       /\ last.recv.kind = "DateTime" => last.res.v.kind \in {"Date", "Time"}

\* the leap day 2024-02-29 widened to 2024-02-29 00:00:00 and narrowed back
C21_Witness ==
    /\ last.op = "from"
    /\ last.recv.kind = "Date"
    /\ last.recv.date = [year |-> 2024, month |-> 2, day |-> 29]
    /\ last.res.v.datetime.date = last.recv.date
    /\ last.res.v.datetime.time = 0
    /\ last.back.date = last.recv.date

\* the default pattern of a kind as the registry holds it
RefDefault(kind, reg) ==
    IF kind = "Date" THEN reg.date
    ELSE IF kind = "Time" THEN reg.time
    ELSE IF reg.datetime # None THEN reg.datetime.v
    ELSE reg.date \o <<" ">> \o reg.time

\* C22: every conversion between kinds gives its result the destination
\* kind's registry default pattern as read at the moment of conversion, never
\* the source value's own pattern, and a later next on the result keeps that
\* pattern.
C22_ConvertedTakesDefault ==
    [][ /\ last'.op = "from"
           => /\ self' = last'.res.v
              /\ self'.kind # self.kind
              /\ self'.format = RefDefault(self'.kind, registry)
              /\ last'.back.format = RefDefault(self.kind, registry)
        /\ (last'.op = "next" /\ last'.res.outcome = "Ok")
           => /\ self' = last'.res.v
              /\ self'.format = self.format ]_vars

\* with Date default %d/%m/%Y, DateTime 2023-01-01 12:00:00 converts to a
\* Date rendering 01/01/2023, whose next Day renders 02/01/2023
C22_Witness ==
    /\ last.op = "next"
    /\ registry.date = SlashDateFormat
    /\ last.recv = from_datetime(DateTime(NaiveDateTime(Ymd(2023, 1, 1),
                                                        Hms(12, 0, 0)),
                                          DateTimeFormat), "Date", registry)
    /\ Display(last.recv) = "01/01/2023"
    /\ last.res.outcome = "Ok"
    /\ Display(last.res.v) = "02/01/2023"

-----------------------------------------------------------------------------
(* Equality and ordering *)

\* C23: two values of the same kind are equal exactly when their inner
\* date/time values are equal, whatever their patterns, and a < b exactly when
\* a's inner value is earlier than b's.
C23_ComparisonIgnoresPattern ==
    last.op = "cmp"
    => /\ last.eq <=> RefInstant(last.recv) = RefInstant(last.rhs)
       /\ last.lt <=> /\ RefInstant(last.recv) # RefInstant(last.rhs)
                      /\ I64Leq(RefInstant(last.recv), RefInstant(last.rhs))


\* C24: matches is field equality on numbers: matches(v, unit, x) is true
\* exactly when the named field of v equals x as a mathematical integer,
\* for every value and every argument (a negative i32 for a Date, a u32
\* above i32::MAX for a DateTime).
C24_MatchesIsFieldEquality ==
    last.op = "matches" =>
        (last.res.v <=>
            IF last.recv.kind = "Date"
            THEN RefField(last.recv, last.unit) = last.value
            ELSE /\ last.value[1] < 32768
                 /\ RefField(last.recv, last.unit)
                        = last.value[1] * 65536 + last.value[2])

-----------------------------------------------------------------------------
(* Serialization *)

\* a pattern that writes every field of the kind
RefLossless(kind, pattern) ==
    LET items == {pattern[i] : i \in DOMAIN pattern}
    IN  IF kind = "Date"
        THEN {"%Y", "%m", "%d"} \subseteq items /\ items \cap TimeItems = {}
        ELSE {"%Y", "%m", "%d"} \cup TimeItems \subseteq items

-----------------------------------------------------------------------------
(* is_in_future *)

\* the instant a clock reading names, in whole seconds
RefReading(now) == I64(RefDayNumber(now.date), now.time)

\* the inner value of what today() (for a Date) or now() (for a DateTime)
\* returns at the reading t0, moved by `days` days
RefIsCurrentMoved(v, t0, days) ==
    IF v.kind = "Date"
    THEN RefDayNumber(v.date) = RefDayNumber(t0.date) + days
    ELSE /\ RefDayNumber(v.datetime.date) = RefDayNumber(t0.date) + days
         /\ v.datetime.time = t0.time

\* the call at `now` is made right after the reading t0: before a day has
\* passed
RefWithinADay(t0, now) == I64Sub(RefReading(now), RefReading(t0)).hi = 0

-----------------------------------------------------------------------------
(* clear_time *)

\* C28: clear_time of a DateTime, in every registry state, succeeds and
\* returns the value with the same date, hour = minute = second = 0 and the
\* same display pattern, also after the DateTime default was reconfigured.
C28_ClearTimeKeepsPattern ==
    last.op = "clear_time"
    => /\ last.res.outcome = "Ok"
       /\ last.res.v.datetime.date = last.recv.datetime.date
       /\ \A unit \in Units.Time : RefField(last.res.v, unit) = 0
       /\ last.res.v.format = last.recv.format

-----------------------------------------------------------------------------
(* Date::unit_elapsed(Day) and the clock *)

\* C29: unit_elapsed with Day of two valid Dates does not depend on the
\* clock: whatever the two readings, however far apart, the call returns
\* the same Ok value, and never InvalidUtc.
C29_DayCountIgnoresClock ==
    (/\ last.op = "unit_elapsed" /\ last.recv.kind = "Date"
     /\ last.unit = "Day")
    => /\ last.res.outcome = "Ok"
       /\ \A now1 \in Inputs.Clock, now2 \in Inputs.Clock :
             UtcLeq(now1, now2)
             => Date_unit_elapsed(last.recv, last.rhs, "Day", now1, now2)
                    = last.res

-----------------------------------------------------------------------------
(* The locks of the registry *)

\* the threads that hold the shared lock of a slot
RefReaders(slot) ==
    {t \in 1 .. MaxThreads :
        /\ threads.calls[t].op = "try_from"
        /\ \/ threads.calls[t].pc = <<"read", slot>>
           \/ /\ slot = "datetime"
              /\ threads.calls[t].pc[1] \in {"derive", "read", "return"}}

\* the threads that hold the exclusive lock of a slot
RefWriters(slot) ==
    {t \in 1 .. MaxThreads :
        threads.calls[t].op = "build" /\ threads.calls[t].pc = <<"locked", slot>>}

\* C27: with threads reading the DateTime default (the derived read holds
\* the DateTime slot's shared lock while it takes the Date and then the
\* Time slot's shared lock) and threads running build() (one exclusive lock
\* after another), no slot is read while it is written, no two writers
\* hold a slot together, and under fair scheduling every read and every
\* build() completes.
C27_LockingSafeAndLive ==
    /\ [](\A slot \in {"date", "time", "datetime"} :
            /\ Cardinality(RefWriters(slot)) <= 1
            /\ RefWriters(slot) # {} => RefReaders(slot) = {})
    /\ <>(\A t \in 1 .. MaxThreads : threads.calls[t].pc = <<"done", "">>)

\* a thread holds the DateTime slot's shared lock and waits for the Date
\* slot while a build() holds the Date slot's exclusive lock
C27_Witness ==
    \E t \in 1 .. MaxThreads, u \in 1 .. MaxThreads :
       /\ threads.calls[t].pc = <<"derive", "date">>
       /\ threads.calls[u].op = "build"
       /\ threads.calls[u].pc = <<"locked", "date">>

-----------------------------------------------------------------------------
(* A DateTime built from a string *)

\* C30: a DateTime built from a string with the registry default stores as
\* its pattern the pattern the string was parsed with, so that rendering it
\* gives the string again, also when build() runs during the construction.
C30_StoredPatternIsParsePattern ==
    \A t \in 1 .. MaxThreads :
       (/\ threads.calls[t].op = "try_from"
        /\ threads.calls[t].pc = <<"done", "">>
        /\ threads.calls[t].res.outcome = "Ok")
       => /\ parse_from_str(threads.calls[t].text,
                            threads.calls[t].res.v.format, "DateTime")
                = Some(threads.calls[t].res.v.datetime)
          /\ Display(threads.calls[t].res.v) = "2023-01-01 12:00:00"

=========================================================================
